---- MODULE Spec2Model ----
(***************************************************************************)
(* Client-side message synchronisation of the chat page                    *)
(* (frontend/src/pages/Chat.jsx): the Message Store `messages`, the        *)
(* conversation list `rooms`, the snapshot loads, the push-event handler   *)
(* handleWsMessage, the scoped delete handleDeleteMessage and the render   *)
(* projection visibleMessages / MessageList; and the push connection       *)
(* (useWebSocket in frontend/src/components/VoiceRecorder.jsx): sockets,   *)
(* the wsRef and reconnectTimer refs, the reconnect timers.                *)
(***************************************************************************)
EXTENDS Integers, Sequences, FiniteSets, TLC

VARIABLES
    rooms,          \* Chat: const [rooms, setRooms]
    activeRoom,     \* Chat: const [activeRoom, setActiveRoom] (room id or NoRoom)
    messages,       \* Chat: const [messages, setMessages]  -- the Message Store
    msgsLoading,    \* Chat: const [msgsLoading, setMsgsLoading]
    roomsLoading,   \* Chat: const [roomsLoading, setRoomsLoading]
    contextMenu,    \* MessageList: const [contextMenu, setContextMenu] (message id or 0)
    pendingLoads,   \* snapshot GETs whose promise has not settled yet
    pendingDeletes, \* DELETE requests whose promise has not settled yet
    tombstoned,     \* history: ids tombstoned by a message_deleted event since the last (re)load
    hiddenForMe,    \* history: ids whose scope "me" delete succeeded since the last (re)load
    lastOp,         \* history: the handler that ran last
    sockets,        \* useWebSocket: the WebSocket objects that are not closed yet
    wsRef,          \* useWebSocket: wsRef.current (a socket slot, 0 for null or a closed socket)
    timers,         \* useWebSocket: the setTimeout(connect, 3000) timers still pending
    reconnectTimer, \* useWebSocket: reconnectTimer.current (a timer slot, 0 for none pending)
    mounted,        \* the Chat component is mounted
    sent,           \* server: per socket, the newest new-message id it sent on the connection
    created,        \* server: the messages created so far are 1..created
    serverDeleted,  \* server: ids deleted for everyone
    serverHidden,   \* server: ids the page's user deleted for themselves
    served,         \* server: the page's DELETE requests handled, their answers in flight
    inbox,          \* server: per user, the message_deleted events sent and not yet received
    peerOpen,       \* the other user's client has the conversation open
    peerMessages,   \* the other user's client: its messages (the Store)
    alert,          \* the text of the alert() the last step raised, if it raised one
    text,           \* the message input's text
    uploadType,     \* the kind of attachment chosen in the attachment menu
    pendingSends,   \* POST requests (text, voice, attachment) whose promise has not settled yet
    searchQuery,    \* the sidebar's search input
    searchResults,  \* the search results drawn in the sidebar
    searchTimer,    \* searchTimer.current: the id of the timeout set last (0: null)
    timeouts,       \* the browser's timeouts by id: free, or pending with what the callback closed over
    pendingSearches, \* GET /api/search requests whose promise has not settled yet, oldest first
    burst,          \* history of the query: how long unchanged, what was requested for it
    recording,      \* VoiceRecorder's recording state
    mediaRecorderRef, \* mediaRecorderRef.current: none, or the state of the MediaRecorder it holds
    grants,         \* getUserMedia promises that have not settled yet
    stopEvents,     \* stop events of MediaRecorders waiting for their onstop handler
    orphans,        \* started MediaRecorders the ref no longer holds
    pressed,        \* the mic button is held down
    presses,        \* history: how often the mic button was pressed
    voiceSends,     \* history: how often a recorder called onSend
    denials,        \* history: how often the microphone was denied
    reservedClosed, \* history: the active conversation, if its connection was closed with 4001 since it became active
    answers,        \* per conversation: the snapshot the server computed for a GET, on its way to the page
    pushed,         \* history: the messages a new-message event appended since the conversation became active
    missed,         \* history: the active conversation's messages created while its connection was down
    user,           \* AuthProvider's user state: none, or the user record
    token,          \* AuthProvider's token state: none, or the access token
    storage,        \* localStorage: per key none, or the string stored
    path,           \* the router's location
    page,           \* the page the router has rendered
    loginForm,      \* Login's form state: email and password
    loginError,     \* Login's error state ('' for none)
    loginLoading,   \* Login's loading state
    logins          \* POST /api/auth/login requests in flight: whether the Login that sent it is still mounted

chatVars == <<rooms, activeRoom, messages, msgsLoading, roomsLoading, contextMenu,
              pendingLoads, pendingDeletes, tombstoned, hiddenForMe>>
wsVars == <<sockets, wsRef, timers, reconnectTimer, mounted>>
serverVars == <<sent, created>>
peerVars == <<serverDeleted, serverHidden, served, inbox, peerOpen, peerMessages>>
sendVars == <<text, uploadType, pendingSends>>
searchVars == <<searchQuery, searchResults, searchTimer, timeouts, pendingSearches, burst>>
recVars == <<recording, mediaRecorderRef, grants, stopEvents, orphans, pressed,
             presses, voiceSends, denials>>
connHist == <<reservedClosed>>
syncVars == <<answers, pushed, missed>>
authVars == <<user, token, storage, path, page, loginForm, loginError, loginLoading, logins>>
pageVars == <<sendVars, searchVars, recVars, syncVars, authVars>>
restVars == <<pageVars, connHist>>
notSendVars == <<searchVars, recVars, connHist, syncVars, authVars>>
notSearchVars == <<sendVars, recVars, connHist, syncVars, authVars>>

vars == <<rooms, activeRoom, messages, msgsLoading, roomsLoading, contextMenu,
          pendingLoads, pendingDeletes, tombstoned, hiddenForMe, lastOp,
          sockets, wsRef, timers, reconnectTimer, mounted, sent, created,
          serverDeleted, serverHidden, served, inbox, peerOpen, peerMessages,
          alert, text, uploadType, pendingSends,
          searchQuery, searchResults, searchTimer, timeouts, pendingSearches, burst,
          recording, mediaRecorderRef, grants, stopEvents, orphans, pressed,
          presses, voiceSends, denials, reservedClosed, answers, pushed, missed,
          user, token, storage, path, page, loginForm, loginError, loginLoading, logins>>

\* ------------------------------------------------------------------ bounds
\* Message ids the server hands out are 1..MaxId.
MaxId == 2
\* DELETE requests in flight at the same time.
MaxPending == 1
\* Snapshot GETs in flight for one conversation at the same time.
MaxLoads == 1
\* WebSocket objects that are not closed yet, at the same time.
MaxSockets == 2
\* Reconnect timers pending at the same time.
MaxTimers == 1
\* message_deleted events sent to one client and not yet received
MaxInbox == 1
\* characters in the message input
MaxText == 2
\* POST requests in flight
MaxSends == 1
\* characters in the search input
MaxQuery == 3
\* search requests in flight
MaxSearches == 1
\* The browser holds at most MaxTimeouts timeouts of the search at a time.
MaxTimeouts == 2
\* At most MaxLogins login requests are in flight at a time.
MaxLogins == 2
\* The mic button is pressed at most MaxPresses times.
MaxPresses == 2

\* setTimeout(connect, 3000)
ReconnectDelayMs == 3000
\* if (e.code !== 4001)
ReservedCloseCode == 4001
\* The debounce delay of the search effect, in ms.
SearchDelayMs == 300
\* The shortest trimmed query the search effect dispatches.
MinQueryLen == 2
\* The step of the clock, in ms.
TickMs == 100

\* ------------------------------------------------------------- data model
NoRoom == "none"
RoomIds == {"r1", "r2"}
Me == "u1"
Other == "u2"
Null == "null"

MsgIds == 1..MaxId

\* Server-assigned, immutable attributes of a message.
RoomOf(i) == IF i <= 2 THEN "r1" ELSE "r2"
SenderOf(i) == IF i % 2 = 1 THEN Me ELSE Other
TypeOf(i) == IF i % 2 = 1 THEN "text" ELSE "voice"

\* deleted_for is a comma-separated string of user ids; it is kept as the list
\* of its comma-separated parts (the empty list for null or "").
DeletedForVals == {<<>>, <<Other, Me>>}

Message(i, content, transcription, is_transcribed, is_deleted, deleted_for) ==
    [id |-> i, room_id |-> RoomOf(i), sender_id |-> SenderOf(i),
     message_type |-> TypeOf(i), content |-> content,
     transcription |-> transcription, is_transcribed |-> is_transcribed,
     is_deleted |-> is_deleted, deleted_for |-> deleted_for,
     created_at |-> i]

\* The absent message (null / undefined last_message).
NoMessage ==
    [id |-> 0, room_id |-> NoRoom, sender_id |-> Null, message_type |-> Null,
     content |-> Null, transcription |-> Null, is_transcribed |-> FALSE,
     is_deleted |-> FALSE, deleted_for |-> <<>>, created_at |-> 0]

\* A message as broadcast when it is created.
Fresh(i) ==
    Message(i, IF TypeOf(i) = "text" THEN "c" ELSE Null, Null, FALSE, FALSE, <<>>)

\* The records the backend can serialise for message i: a deleted-for-everyone
\* message has its content cleared; only voice messages get a transcription.
ServerRows(i) ==
    IF TypeOf(i) = "text"
    THEN {Message(i, IF del THEN Null ELSE "c", Null, FALSE, del, df) :
            del \in BOOLEAN, df \in DeletedForVals}
    ELSE {Message(i, Null, IF tr THEN "t1" ELSE Null, tr, del, df) :
            tr \in BOOLEAN, del \in BOOLEAN, df \in DeletedForVals}

\* The snapshots GET /api/rooms/r/messages can answer: rows of conversation r,
\* one per id at most, in creation order; SnapshotsUpTo covers ids 1..n.
RECURSIVE SnapshotsUpTo(_, _)
SnapshotsUpTo(r, n) ==
    IF n = 0 THEN {<<>>}
    ELSE LET shorter == SnapshotsUpTo(r, n - 1)
         IN  IF RoomOf(n) = r
             THEN shorter \cup {Append(s, m) : s \in shorter, m \in ServerRows(n)}
             ELSE shorter

Snapshots(r) == SnapshotsUpTo(r, MaxId)

\* The conversation lists GET /api/rooms can answer.
LastMessages(r) == {NoMessage} \cup {Fresh(i) : i \in {j \in MsgIds : RoomOf(j) = r}}
RoomLists ==
    {<<[id |-> "r1", last_message |-> a], [id |-> "r2", last_message |-> b]>> :
        a \in LastMessages("r1"), b \in LastMessages("r2")}

\* Push events. A new message is pushed as the bare message record (no type
\* tag); the two other events carry a type.
NewMessageEvents ==
    {[type |-> "new_message", message_id |-> i, message |-> Fresh(i)] : i \in MsgIds}
TranscriptionEvents ==
    {[type |-> "transcription_update", message_id |-> m.id, message |-> m] :
        m \in {x \in UNION {ServerRows(i) : i \in MsgIds} :
                 x.message_type = "voice" /\ x.is_transcribed}}
DeletedEvents ==
    {[type |-> "message_deleted", message_id |-> i, message |-> NoMessage] : i \in MsgIds}
WsEvents == NewMessageEvents \cup TranscriptionEvents \cup DeletedEvents

\* Inbound payloads that are not events: event.data is not JSON ("unparseable"),
\* and a transcription_update object that carries no message ("no_record":
\* data.message is undefined).
MalformedPayloads ==
    {[type |-> "unparseable", message_id |-> 0, message |-> NoMessage],
     [type |-> "no_record", message_id |-> 0, message |-> NoMessage]}

\* Close codes a socket can be closed with: normal and abnormal closure, and
\* the code the hook reserves for "do not reconnect".
ServerCloseCodes == {1000, 1006, ReservedCloseCode}
\* ws.close() without arguments ends in a close event with code 1005, or 1006
\* when the connection was not established yet.
CleanupCloseCodes == {1005, 1006}

\* No alert() in the step.
NoAlert == "none"
\* What the backend may put in an error's response.data.detail (null: none).
ErrorDetails == {Null, "Not allowed"}

\* The texts of the message input and of the search input: blanks and
\* letters, up to a length.
RECURSIVE TextsUpTo(_)
TextsUpTo(n) ==
    IF n = 0 THEN {<<>>}
    ELSE TextsUpTo(n - 1) \cup {Append(t, c) : t \in TextsUpTo(n - 1), c \in {" ", "a"}}

\* String.prototype.trim(): the text without its leading and trailing blanks.
RECURSIVE TrimStart(_)
TrimStart(t) == IF t # <<>> /\ Head(t) = " " THEN TrimStart(Tail(t)) ELSE t
RECURSIVE TrimEnd(_)
TrimEnd(t) ==
    IF t # <<>> /\ t[Len(t)] = " " THEN TrimEnd(SubSeq(t, 1, Len(t) - 1)) ELSE t
Trim(t) == TrimEnd(TrimStart(t))

\* The files the file dialog can hand to the page (null: the dialog was
\* closed without a file).
Files == {Null, "f1"}

\* A result of GET /api/search: the message it refers to.
Result(i) == [message |-> Fresh(i), match_type |-> "text"]
\* The answers to a request: result lists, most recent first; a search within
\* a conversation returns messages of that conversation only.
ResultsFor(req) ==
    {d \in {<<>>, <<Result(1)>>, <<Result(2), Result(1)>>} :
        req.room = NoRoom \/ \A k \in 1..Len(d) : d[k].message.room_id = req.room}

FreeSearchTimer == [state |-> "free", q |-> <<>>, room |-> NoRoom, left |-> 0]

\* A slot holding no WebSocket / no timer.
FreeSocket == [room |-> NoRoom, state |-> "free"]
FreeTimer == [room |-> NoRoom, state |-> "free", delay |-> 0]

\* ------------------------------------------------------- pure operations
Has(prev, i) == \E k \in 1..Len(prev) : prev[k].id = i

\* Mutants of OnTranscriptionUpdate: the text is copied but the flag is not;
\* the two transcription fields are merged into the Store's entry; an absent
\* id is inserted.
OnTranscriptionUpdate_TextOnly(prev, updated) ==
    [k \in 1..Len(prev) |->
        IF prev[k].id = updated.id
        THEN [prev[k] EXCEPT !.transcription = updated.transcription]
        ELSE prev[k]]
OnTranscriptionUpdate_Merge(prev, updated) ==
    [k \in 1..Len(prev) |->
        IF prev[k].id = updated.id
        THEN [prev[k] EXCEPT !.transcription = updated.transcription,
                             !.is_transcribed = updated.is_transcribed]
        ELSE prev[k]]
OnTranscriptionUpdate_Upsert(prev, updated) ==
    IF \E k \in 1..Len(prev) : prev[k].id = updated.id
    THEN [k \in 1..Len(prev) |-> IF prev[k].id = updated.id THEN updated ELSE prev[k]]
    ELSE Append(prev, updated)

\* setMessages(prev => prev.map(m => m.id === updated.id ? updated : m))
OnTranscriptionUpdate(prev, updated) ==
    [k \in 1..Len(prev) |-> IF prev[k].id = updated.id THEN updated ELSE prev[k]]

\* Mutants of OnMessageDeleted: the flag is toggled instead of set; the entry
\* is removed instead of kept as a tombstone.
OnMessageDeleted_Toggle(prev, message_id) ==
    [k \in 1..Len(prev) |->
        IF prev[k].id = message_id
        THEN [prev[k] EXCEPT !.is_deleted = ~@, !.content = Null]
        ELSE prev[k]]
OnMessageDeleted_Remove(prev, message_id) ==
    LET Keep(m) == m.id # message_id IN SelectSeq(prev, Keep)

\* setMessages(prev => prev.map(m => m.id === message_id
\*     ? { ...m, is_deleted: true, content: null } : m))
OnMessageDeleted(prev, message_id) ==
    [k \in 1..Len(prev) |->
        IF prev[k].id = message_id
        THEN [prev[k] EXCEPT !.is_deleted = TRUE, !.content = Null]
        ELSE prev[k]]

\* Mutants of OnNewMessage: no dedup by id; the new message is put in front.
OnNewMessage_NoDedup(prev, data) == Append(prev, data)
OnNewMessage_Prepend(prev, data) ==
    IF Has(prev, data.id) THEN prev ELSE <<data>> \o prev

\* setMessages(prev => prev.find(m => m.id === data.id) ? prev : [...prev, data])
OnNewMessage(prev, data) ==
    IF Has(prev, data.id) THEN prev ELSE Append(prev, data)

\* Mutant of SetLastMessage: only the active conversation's entry is updated.
SetLastMessage_ActiveOnly(prev, data) ==
    [k \in 1..Len(prev) |->
        IF prev[k].id = data.room_id /\ prev[k].id = activeRoom
        THEN [prev[k] EXCEPT !.last_message = data]
        ELSE prev[k]]

\* setRooms(prev => prev.map(r => r.id === data.room_id ? {...r, last_message: data} : r))
SetLastMessage(prev, data) ==
    [k \in 1..Len(prev) |->
        IF prev[k].id = data.room_id
        THEN [prev[k] EXCEPT !.last_message = data]
        ELSE prev[k]]

\* setMessages(prev => prev.filter(m => m.id !== msg.id))
RemoveMessage(prev, i) ==
    LET Keep(m) == m.id # i IN SelectSeq(prev, Keep)

\* msg.deleted_for.split(',').includes(user?.id)
Includes(parts, uid) == \E k \in 1..Len(parts) : parts[k] = uid

\* Mutant of visibleMessages: a message anyone deleted for themselves is hidden
\* from every viewer.
visibleMessages_AnyViewer(msgs, uid) ==
    LET Visible(m) == m.deleted_for = <<>>
    IN  SelectSeq(msgs, Visible)

\* const visibleMessages = messages.filter(...)
visibleMessages(msgs, uid) ==
    LET Visible(m) == IF m.deleted_for = <<>> THEN TRUE
                      ELSE ~Includes(m.deleted_for, uid)
    IN  SelectSeq(msgs, Visible)

\* MessageList: one row per message handed to it, a tombstone for is_deleted.
MessageRow(m) ==
    IF m.is_deleted
    THEN [id |-> m.id, view |-> "tombstone", content |-> Null, menu |-> FALSE]
    ELSE [id |-> m.id, view |-> "message", content |-> m.content, menu |-> TRUE]

MessageList(msgs) == [k \in 1..Len(msgs) |-> MessageRow(msgs[k])]

\* The message pane shows the list (not the welcome screen, not the spinner).
ListShown == activeRoom # NoRoom /\ ~msgsLoading
RenderedRows == MessageList(visibleMessages(messages, Me))
RowOf(i) == {RenderedRows[k] : k \in {j \in 1..Len(RenderedRows) : RenderedRows[j].id = i}}

\* The context menu is drawn: MessageList is mounted, has rows, and holds a menu.
MenuShown == ListShown /\ Len(RenderedRows) > 0 /\ contextMenu # 0

Op(name, i) == [op |-> name, id |-> i]

RoomIdsOf(rs) == {rs[k].id : k \in 1..Len(rs)}

\* ------------------------------------------------------------ the session
\* What POST /api/auth/login answers for user u: the user record.
UserData(u) == [id |-> u, username |-> IF u = Me THEN "ann" ELSE "bob"]

\* JSON.stringify(userData): the text, as the list of its tokens.
Stringify(u) == <<"{", "id", u.id, "username", u.username, "}">>

\* localStorage: a key holds nothing (<<>>, getItem gives null) or one string.
\* useState(() => { try { return JSON.parse(localStorage.getItem('user')); }
\* catch { return null; } }): JSON.parse(null) is null, and a text that is no
\* JSON makes it throw.
InitialUser(st) ==
    LET item == st.user
    IN  IF item = <<>> THEN <<>>
        ELSE IF /\ Len(item[1]) = 6 /\ item[1][1] = "{" /\ item[1][2] = "id"
                /\ item[1][4] = "username" /\ item[1][6] = "}"
             THEN <<[id |-> item[1][3], username |-> item[1][5]]>>
             ELSE <<>>

\* Login's form: what the two inputs hold.
EmptyForm == [email |-> "", password |-> ""]

\* isAuthenticated: !!token
Truthy(t) == t # <<>> /\ t[1] # ""
isAuthenticated == Truthy(token)

\* ------------------------------------------------------------------ Init
Init ==
    /\ rooms = <<>>
    /\ activeRoom = NoRoom
    /\ messages = <<>>
    /\ msgsLoading = FALSE
    /\ roomsLoading = TRUE
    /\ contextMenu = 0
    /\ pendingLoads = [r \in RoomIds |-> 0]
    /\ pendingDeletes = {}
    /\ tombstoned = {}
    /\ hiddenForMe = {}
    /\ lastOp = Op("init", 0)
    /\ sockets = [k \in 1..MaxSockets |-> FreeSocket]
    /\ wsRef = 0
    /\ timers = [k \in 1..MaxTimers |-> FreeTimer]
    /\ reconnectTimer = 0
    /\ mounted = TRUE
    /\ sent = [k \in 1..MaxSockets |-> 0]
    /\ created = 0
    /\ serverDeleted = {}
    /\ serverHidden = {}
    /\ served = {}
    /\ inbox = [u \in {Me, Other} |-> <<>>]
    /\ peerOpen = FALSE
    /\ peerMessages = <<>>
    /\ alert = NoAlert
    /\ text = <<>>
    /\ uploadType = "image"
    /\ pendingSends = {}
    /\ searchQuery = <<>>
    /\ searchResults = <<>>
    /\ searchTimer = 0
    /\ timeouts = [t \in 1..MaxTimeouts |-> FreeSearchTimer]
    /\ pendingSearches = <<>>
    /\ burst = [stable |-> 0, issued |-> <<>>, changed |-> FALSE, moved |-> FALSE,
                superseded |-> FALSE]
    /\ recording = FALSE
    /\ mediaRecorderRef = Null
    /\ grants = 0
    /\ stopEvents = 0
    /\ orphans = 0
    /\ pressed = FALSE
    /\ presses = 0
    /\ voiceSends = 0
    /\ denials = 0
    /\ reservedClosed = NoRoom
    /\ answers = [r \in RoomIds |-> <<>>]
    /\ pushed = {}
    /\ missed = {}
    /\ user = <<UserData(Me)>>
    /\ token = <<"t1">>
    /\ storage = [user |-> <<Stringify(UserData(Me))>>, token |-> <<"t1">>]
    /\ path = "/chat"
    /\ page = "Chat"
    /\ loginForm = EmptyForm
    /\ loginError = ""
    /\ loginLoading = FALSE
    /\ logins = <<>>

\* --------------------------------------------------------------- actions
\* Load rooms effect: api.get('/api/rooms').then(r => { setRooms(r.data); ... })
LoadRooms(data) ==
    /\ roomsLoading
    /\ rooms' = data
    /\ roomsLoading' = FALSE
    /\ UNCHANGED <<activeRoom, messages, msgsLoading, contextMenu, pendingLoads,
                   pendingDeletes, tombstoned, hiddenForMe>>

\* Load rooms effect, the request failed: .catch(() => setRoomsLoading(false))
LoadRoomsFail ==
    /\ roomsLoading
    /\ roomsLoading' = FALSE
    /\ UNCHANGED <<rooms, activeRoom, messages, msgsLoading, contextMenu, pendingLoads,
                   pendingDeletes, tombstoned, hiddenForMe>>

\* handleRoomDeleted(roomId), called by the sidebar once its DELETE of the
\* conversation succeeded (request and answer taken as one step): the
\* conversation leaves the list and, if it was the active one, no conversation
\* is active; MessageList and its menu are unmounted with the chat area.
handleRoomDeleted(r) ==
    /\ r \in RoomIdsOf(rooms)
    /\ rooms' = LET Keep(x) == x.id # r IN SelectSeq(rooms, Keep)
    /\ activeRoom' = IF activeRoom = r THEN NoRoom ELSE activeRoom
    /\ contextMenu' = IF activeRoom = r THEN 0 ELSE contextMenu
    /\ UNCHANGED <<messages, msgsLoading, roomsLoading, pendingLoads,
                   pendingDeletes, tombstoned, hiddenForMe>>

\* handleSelectRoom(room) followed by the load-messages effect, which runs when
\* activeRoom?.id changed: the spinner replaces (unmounts) MessageList and the
\* snapshot GET is issued.  The Store keeps its entries until the answer.
handleSelectRoom(r) ==
    /\ r \in RoomIdsOf(rooms)
    /\ r # activeRoom
    /\ pendingLoads[r] < MaxLoads
    /\ activeRoom' = r
    /\ msgsLoading' = TRUE
    /\ contextMenu' = 0
    /\ pendingLoads' = [pendingLoads EXCEPT ![r] = @ + 1]
    /\ tombstoned' = {}
    /\ hiddenForMe' = {}
    /\ UNCHANGED <<rooms, messages, roomsLoading, pendingDeletes>>

\* Mutant of LoadMessagesOk: the snapshot is appended to what the Store holds.
LoadMessagesOk_Append(r, data) ==
    /\ pendingLoads[r] > 0
    /\ pendingLoads' = [pendingLoads EXCEPT ![r] = @ - 1]
    /\ messages' = messages \o data
    /\ msgsLoading' = FALSE
    /\ tombstoned' = {}
    /\ hiddenForMe' = {}
    /\ UNCHANGED <<rooms, activeRoom, roomsLoading, contextMenu, pendingDeletes>>

\* .then(r => { setMessages(r.data); setMsgsLoading(false); }) of the GET for
\* conversation r; the effect has no cleanup, so every answer is applied.
LoadMessagesOk(r, data) ==
    /\ pendingLoads[r] > 0
    /\ pendingLoads' = [pendingLoads EXCEPT ![r] = @ - 1]
    /\ messages' = data
    /\ msgsLoading' = FALSE
    /\ tombstoned' = {}
    /\ hiddenForMe' = {}
    /\ UNCHANGED <<rooms, activeRoom, roomsLoading, contextMenu, pendingDeletes>>

\* .catch(() => setMsgsLoading(false))
LoadMessagesFail(r) ==
    /\ pendingLoads[r] > 0
    /\ pendingLoads' = [pendingLoads EXCEPT ![r] = @ - 1]
    /\ msgsLoading' = FALSE
    /\ UNCHANGED <<rooms, activeRoom, messages, roomsLoading, contextMenu,
                   pendingDeletes, tombstoned, hiddenForMe>>

\* handleWsMessage(data), called by the socket's onmessage.  useWebSocket opens
\* a socket only for a truthy roomId, so events need an active conversation.
handleWsMessage(data) ==
    /\ activeRoom # NoRoom
    /\ UNCHANGED <<activeRoom, msgsLoading, roomsLoading, contextMenu,
                   pendingLoads, pendingDeletes, hiddenForMe>>
    /\ messages' =
         CASE data.type = "transcription_update" ->
                OnTranscriptionUpdate(messages, data.message)
           [] data.type = "message_deleted" ->
                OnMessageDeleted(messages, data.message_id)
           [] OTHER -> OnNewMessage(messages, data.message)
    /\ rooms' =
         IF data.type \in {"transcription_update", "message_deleted"}
         THEN rooms
         ELSE SetLastMessage(rooms, data.message)
    /\ tombstoned' =
         IF data.type = "message_deleted" /\ Has(messages, data.message_id)
         THEN tombstoned \cup {data.message_id}
         ELSE tombstoned

\* MessageList.handleContextMenu(e, msg): only rows that are not tombstones
\* carry onContextMenu.
handleContextMenu(k) ==
    /\ ListShown
    /\ k \in 1..Len(RenderedRows)
    /\ RenderedRows[k].menu
    /\ contextMenu' = RenderedRows[k].id
    /\ UNCHANGED <<rooms, activeRoom, messages, msgsLoading, roomsLoading,
                   pendingLoads, pendingDeletes, tombstoned, hiddenForMe>>

\* onClose / click on the container: setContextMenu(null)
CloseContextMenu ==
    /\ MenuShown
    /\ contextMenu' = 0
    /\ UNCHANGED <<rooms, activeRoom, messages, msgsLoading, roomsLoading,
                   pendingLoads, pendingDeletes, tombstoned, hiddenForMe>>

\* A menu item: onDeleteMessage(contextMenu.msg, scope); setContextMenu(null).
\* handleDeleteMessage runs up to its await: the DELETE request is in flight.
\* "Delete for everyone" is drawn only when isSender.
ClickDelete(scope) ==
    /\ MenuShown
    /\ scope = "everyone" => SenderOf(contextMenu) = Me
    /\ Cardinality(pendingDeletes) < MaxPending
    /\ pendingDeletes' = pendingDeletes \cup {[id |-> contextMenu, scope |-> scope]}
    /\ contextMenu' = 0
    /\ UNCHANGED <<rooms, activeRoom, messages, msgsLoading, roomsLoading,
                   pendingLoads, tombstoned, hiddenForMe>>

\* handleDeleteMessage after the await resolved.
DeleteOk(req) ==
    /\ req \in pendingDeletes
    /\ pendingDeletes' = pendingDeletes \ {req}
    /\ messages' = IF req.scope = "me" THEN RemoveMessage(messages, req.id) ELSE messages
    /\ hiddenForMe' = IF req.scope = "me" THEN hiddenForMe \cup {req.id} ELSE hiddenForMe
    /\ UNCHANGED <<rooms, activeRoom, msgsLoading, roomsLoading, contextMenu,
                   pendingLoads, tombstoned>>

\* Mutant of DeleteFail: the entry is filtered out although the request failed.
DeleteFail_Filter(req) ==
    /\ req \in pendingDeletes
    /\ pendingDeletes' = pendingDeletes \ {req}
    /\ messages' = RemoveMessage(messages, req.id)
    /\ \E detail \in ErrorDetails :
            alert' = IF detail # Null THEN detail ELSE "Failed to delete message"
    /\ UNCHANGED <<rooms, activeRoom, msgsLoading, roomsLoading,
                   contextMenu, pendingLoads, tombstoned, hiddenForMe>>

\* handleDeleteMessage after the await rejected: the catch block alerts
\* e.response?.data?.detail || 'Failed to delete message'.
DeleteFail(req) ==
    /\ req \in pendingDeletes
    /\ pendingDeletes' = pendingDeletes \ {req}
    /\ \E detail \in ErrorDetails :
            alert' = IF detail # Null THEN detail ELSE "Failed to delete message"
    /\ UNCHANGED <<rooms, activeRoom, messages, msgsLoading, roomsLoading,
                   contextMenu, pendingLoads, tombstoned, hiddenForMe>>

\* ---------------------------------------------------------- sending
\* onChange of the textarea: setText(e.target.value)
setText(t) ==
    /\ activeRoom # NoRoom
    /\ t # text
    /\ text' = t
    /\ UNCHANGED <<chatVars, uploadType, pendingSends>>

\* Mutant of handleSendText: the message is put into the Store when the
\* request is issued.
handleSendText_Placeholder ==
    /\ Trim(text) # <<>> /\ activeRoom # NoRoom
    /\ Cardinality(pendingSends) < MaxSends
    /\ text' = <<>>
    /\ pendingSends' = pendingSends \cup
            {[kind |-> "text", room |-> activeRoom, content |-> Trim(text)]}
    /\ messages' = Append(messages, NoMessage)
    /\ UNCHANGED <<rooms, activeRoom, msgsLoading, roomsLoading, contextMenu,
                   pendingLoads, pendingDeletes, tombstoned, hiddenForMe, uploadType>>

\* Mutant of handleSendText: only the empty text is refused.
handleSendText_BlankSent ==
    /\ Cardinality(pendingSends) < MaxSends
    /\ IF text = <<>> \/ activeRoom = NoRoom
       THEN UNCHANGED <<chatVars, sendVars>>
       ELSE /\ text' = <<>>
            /\ pendingSends' = pendingSends \cup
                    {[kind |-> "text", room |-> activeRoom, content |-> Trim(text)]}
            /\ UNCHANGED <<chatVars, uploadType>>

\* handleSendText (send button, Enter key) up to its await: nothing happens
\* for a blank text or without an active conversation; otherwise the input is
\* cleared and the POST is in flight.
handleSendText ==
    /\ Cardinality(pendingSends) < MaxSends
    /\ IF Trim(text) = <<>> \/ activeRoom = NoRoom
       THEN UNCHANGED <<chatVars, sendVars>>
       ELSE /\ text' = <<>>
            /\ pendingSends' = pendingSends \cup
                    {[kind |-> "text", room |-> activeRoom, content |-> Trim(text)]}
            /\ UNCHANGED <<chatVars, uploadType>>

\* handleVoiceSend(blob), the recorder's onSend, up to its await.
handleVoiceSend ==
    /\ Cardinality(pendingSends) < MaxSends
    /\ IF activeRoom = NoRoom
       THEN UNCHANGED <<chatVars, sendVars>>
       ELSE /\ pendingSends' = pendingSends \cup
                    {[kind |-> "voice", room |-> activeRoom, content |-> <<>>]}
            /\ UNCHANGED <<chatVars, text, uploadType>>

\* handleAttachmentClick(type): the kind is kept and the file dialog opens.
handleAttachmentClick(type) ==
    /\ activeRoom # NoRoom
    /\ type # uploadType
    /\ uploadType' = type
    /\ UNCHANGED <<chatVars, text, pendingSends>>

\* handleFileSelect(e), the file input's onChange, up to its await.
handleFileSelect(file) ==
    /\ Cardinality(pendingSends) < MaxSends
    /\ IF file = Null \/ activeRoom = NoRoom
       THEN UNCHANGED <<chatVars, sendVars>>
       ELSE /\ pendingSends' = pendingSends \cup
                    {[kind |-> uploadType, room |-> activeRoom, content |-> <<>>]}
            /\ UNCHANGED <<chatVars, text, uploadType>>

\* A send handler after its await resolved: nothing is left to do.
SendOk(req) ==
    /\ req \in pendingSends
    /\ pendingSends' = pendingSends \ {req}
    /\ UNCHANGED <<chatVars, text, uploadType>>

\* A send handler after its await rejected: the catch block alerts.
SendFail(req) ==
    /\ req \in pendingSends
    /\ pendingSends' = pendingSends \ {req}
    /\ alert' = CASE req.kind = "text" -> "Failed to send message"
                  [] req.kind = "voice" -> "Failed to send voice message"
                  [] OTHER -> "Failed to upload file"
    /\ UNCHANGED <<chatVars, text, uploadType>>

\* ----------------------------------------------------- voice recorder
\* onMouseDown / onTouchStart on the mic button (disabled without an active
\* conversation): startRecording up to its await of getUserMedia.
startRecording ==
    /\ activeRoom # NoRoom
    /\ ~pressed
    /\ presses < MaxPresses
    /\ pressed' = TRUE
    /\ presses' = presses + 1
    /\ grants' = grants + 1
    /\ UNCHANGED <<recording, mediaRecorderRef, stopEvents, orphans, voiceSends, denials>>

\* startRecording after getUserMedia resolved: a new MediaRecorder is started,
\* the ref holds it (a recorder it held before is no longer reachable) and
\* setRecording(true).
GrantOk ==
    /\ grants > 0
    /\ grants' = grants - 1
    /\ orphans' = IF mediaRecorderRef = "recording" THEN orphans + 1 ELSE orphans
    /\ mediaRecorderRef' = "recording"
    /\ recording' = TRUE
    /\ UNCHANGED <<stopEvents, pressed, presses, voiceSends, denials>>

\* startRecording after getUserMedia rejected: the catch block alerts.
GrantDenied ==
    /\ grants > 0
    /\ grants' = grants - 1
    /\ alert' = "Microphone access denied. Please allow microphone permissions."
    /\ denials' = denials + 1
    /\ UNCHANGED <<recording, mediaRecorderRef, stopEvents, orphans, pressed,
                   presses, voiceSends>>

\* onMouseUp / onTouchEnd: stopRecording.  mediaRecorderRef.current?.stop()
\* stops the recorder the ref holds, if it holds one that is recording, and
\* queues its stop event; setRecording(false).
stopRecording ==
    /\ pressed
    /\ pressed' = FALSE
    /\ IF mediaRecorderRef = "recording"
       THEN /\ mediaRecorderRef' = "inactive"
            /\ stopEvents' = stopEvents + 1
       ELSE UNCHANGED <<mediaRecorderRef, stopEvents>>
    /\ recording' = FALSE
    /\ UNCHANGED <<grants, orphans, presses, voiceSends, denials>>

\* mr.onstop: the tracks are stopped and onSend(blob) is called.
onstop ==
    /\ stopEvents > 0
    /\ stopEvents' = stopEvents - 1
    /\ voiceSends' = voiceSends + 1
    /\ handleVoiceSend
    /\ UNCHANGED <<recording, mediaRecorderRef, grants, orphans, pressed, presses, denials>>

\* The least element of a set of numbers that is not empty.
Lowest(S) == CHOOSE k \in S : \A j \in S : k <= j

\* ------------------------------------------------------------ search
\* The timeouts that have not run and were not cleared.
PendingTimeouts == {t \in 1..MaxTimeouts : timeouts[t].state = "pending"}

\* clearTimeout(id): the timeout, if it is still pending, will not run.
ClearTimeout(ts, id) ==
    [t \in 1..MaxTimeouts |-> IF t = id THEN FreeSearchTimer ELSE ts[t]]

\* The id setTimeout returns: one no pending timeout has.
NewTimeoutId(ts) ==
    IF \E t \in 1..MaxTimeouts : ts[t].state = "free"
    THEN Lowest({t \in 1..MaxTimeouts : ts[t].state = "free"})
    ELSE MaxTimeouts

\* setTimeout(callback, 300), the callback having closed over q and r.
SetTimeout(ts, q, r) ==
    [ts EXCEPT ![NewTimeoutId(ts)] =
        [state |-> "pending", q |-> q, room |-> r, left |-> SearchDelayMs]]

\* Mutant of SearchEffect: a pending timeout is left to run, the new one is
\* not set.
SearchEffect_KeepsPending(q, r) ==
    IF PendingTimeouts # {} THEN [timeouts |-> timeouts, ref |-> searchTimer]
    ELSE IF Len(Trim(q)) < MinQueryLen THEN [timeouts |-> timeouts, ref |-> searchTimer]
    ELSE [timeouts |-> SetTimeout(timeouts, q, r), ref |-> NewTimeoutId(timeouts)]

\* Mutant of SearchEffect: every query that is not blank is searched.
SearchEffect_AnyLength(q, r) ==
    LET cleared == ClearTimeout(timeouts, searchTimer)
    IN  IF Len(Trim(q)) < 1 THEN [timeouts |-> cleared, ref |-> searchTimer]
        ELSE [timeouts |-> SetTimeout(cleared, q, r), ref |-> NewTimeoutId(cleared)]

\* Mutant of SearchEffect: the timeout set before is not cleared.
SearchEffect_Stacks(q, r) ==
    IF Len(Trim(q)) < MinQueryLen THEN [timeouts |-> timeouts, ref |-> searchTimer]
    ELSE [timeouts |-> SetTimeout(timeouts, q, r), ref |-> NewTimeoutId(timeouts)]

\* The search effect (deps searchQuery, activeRoom?.id), run for query q and
\* conversation r, after the previous run's cleanup: clearTimeout of the id in
\* searchTimer.current (by the cleanup and again by the effect); a query whose
\* trimmed length is below 2 sets no timeout and leaves the id in the ref, any
\* other sets one of 300 ms whose callback holds q and r, and stores its id.
SearchEffect(q, r) ==
    LET cleared == ClearTimeout(timeouts, searchTimer)
    IN  IF Len(Trim(q)) < MinQueryLen THEN [timeouts |-> cleared, ref |-> searchTimer]
        ELSE [timeouts |-> SetTimeout(cleared, q, r), ref |-> NewTimeoutId(cleared)]

\* The search state after a render in which the query is q, the active
\* conversation r and the results those given: the effect runs if the query or
\* the conversation changed, and for a short query it empties the results
\* (setSearchResults([])).
SearchRender(q, r, results) ==
    /\ searchQuery' = q
    /\ IF q # searchQuery \/ r # activeRoom
       THEN /\ timeouts' = SearchEffect(q, r).timeouts
            /\ searchTimer' = SearchEffect(q, r).ref
       ELSE UNCHANGED <<timeouts, searchTimer>>
    /\ searchResults' = IF (q # searchQuery \/ r # activeRoom) /\ Len(Trim(q)) < MinQueryLen
                        THEN <<>> ELSE results
    /\ UNCHANGED pendingSearches

\* onSearch: setSearchQuery(e.target.value)
setSearchQuery(q) ==
    /\ q # searchQuery
    /\ SearchRender(q, activeRoom, searchResults)
    /\ UNCHANGED chatVars

\* onClearSearch: setSearchQuery(''); setSearchResults([])
onClearSearch ==
    /\ searchQuery # <<>>
    /\ SearchRender(<<>>, activeRoom, <<>>)
    /\ UNCHANGED chatVars

\* Sidebar: the results drawn, which replace the conversation list while the
\* query is not blank (showSearch).
DisplayedResults == IF Len(Trim(searchQuery)) > 0 THEN searchResults ELSE <<>>

\* handleSearchResult(result) for the k-th result shown: if the conversation
\* of the result's message is in the list it becomes the active one (with the
\* load effect, as in handleSelectRoom) and query and results are emptied;
\* otherwise nothing happens.
handleSearchResult(k) ==
    /\ k \in 1..Len(DisplayedResults)
    /\ LET r == searchResults[k].message.room_id
       IN  IF r \in RoomIdsOf(rooms)
           THEN /\ IF r # activeRoom THEN handleSelectRoom(r) ELSE UNCHANGED chatVars
                /\ SearchRender(<<>>, r, <<>>)
           ELSE UNCHANGED <<chatVars, searchQuery, searchResults, searchTimer,
                            timeouts, pendingSearches>>

\* The cleanup of the search effect when the page is unmounted:
\* clearTimeout(searchTimer.current)
SearchCleanup ==
    /\ timeouts' = ClearTimeout(timeouts, searchTimer)
    /\ UNCHANGED <<searchQuery, searchResults, searchTimer, pendingSearches>>

\* Time passes: the clock advances by one step; a timeout that is due stays
\* due until it runs.
Tick ==
    /\ timeouts' = [t \in 1..MaxTimeouts |->
                      IF timeouts[t].state = "pending" /\ timeouts[t].left > 0
                      THEN [timeouts[t] EXCEPT
                                !.left = IF @ > TickMs THEN @ - TickMs ELSE 0]
                      ELSE timeouts[t]]
    /\ UNCHANGED <<chatVars, searchQuery, searchResults, searchTimer, pendingSearches>>

\* The callback of timeout t up to its await: GET /api/search with q, and with
\* room_id if a conversation was active when the timeout was set.  The ref
\* keeps the id.
SearchTimerFired(t) ==
    /\ timeouts[t].state = "pending"
    /\ timeouts[t].left = 0
    /\ Len(pendingSearches) < MaxSearches
    /\ pendingSearches' = Append(pendingSearches, [q |-> timeouts[t].q, room |-> timeouts[t].room])
    /\ timeouts' = [timeouts EXCEPT ![t] = FreeSearchTimer]
    /\ UNCHANGED <<chatVars, searchQuery, searchResults, searchTimer>>

\* The pending requests without the k-th.
Settled(k) ==
    [j \in 1..(Len(pendingSearches) - 1) |->
        IF j < k THEN pendingSearches[j] ELSE pendingSearches[j + 1]]

\* The callback of the k-th pending request after its await resolved:
\* setSearchResults(data.results)
SearchOk(k, data) ==
    /\ k \in 1..Len(pendingSearches)
    /\ pendingSearches' = Settled(k)
    /\ searchResults' = data
    /\ UNCHANGED <<chatVars, searchQuery, searchTimer, timeouts>>

\* The callback of the k-th pending request after its await rejected:
\* setSearchResults([])
SearchFail(k) ==
    /\ k \in 1..Len(pendingSearches)
    /\ pendingSearches' = Settled(k)
    /\ searchResults' = <<>>
    /\ UNCHANGED <<chatVars, searchQuery, searchTimer, timeouts>>

\* ------------------------------------------------- the push connection
OpenSockets == {k \in 1..MaxSockets : sockets[k].state = "open"}
PendingTimers == {t \in 1..MaxTimers : timers[t].state = "pending"}

\* The cleanup of the hook's effect: clearTimeout(reconnectTimer.current);
\* wsRef.current?.close().  A closed socket's close() does nothing.
CleanupTimers ==
    IF reconnectTimer # 0 THEN [timers EXCEPT ![reconnectTimer] = FreeTimer] ELSE timers
CleanupSockets ==
    IF wsRef # 0 /\ sockets[wsRef].state = "open"
    THEN [sockets EXCEPT ![wsRef].state = "closing"]
    ELSE sockets

\* connect() of the render in which roomId = r: new WebSocket(url) and
\* wsRef.current = ws.
ConnectSlot(ss) == Lowest({k \in 1..MaxSockets : ss[k].state = "free"})
Connect(ss, r) == [ss EXCEPT ![ConnectSlot(ss)] = [room |-> r, state |-> "open"]]

\* useEffect(() => { connect(); return cleanup }, [connect]) when roomId became
\* r: the cleanup of the previous effect runs, then connect().
useWebSocketEffect(r) ==
    /\ \E k \in 1..MaxSockets : CleanupSockets[k].state = "free"
    /\ timers' = CleanupTimers
    /\ reconnectTimer' = 0
    /\ sockets' = Connect(CleanupSockets, r)
    /\ wsRef' = ConnectSlot(CleanupSockets)
    /\ UNCHANGED mounted

\* Mutant of Reconnects: only an abnormal closure is retried.
Reconnects_AbnormalOnly(code) == code = 1006

\* if (e.code !== 4001)
Reconnects(code) == code # ReservedCloseCode

\* ws.onclose of socket s with close code `code`: unless the code is the
\* reserved one, a reconnect timer is set (setTimeout(connect, 3000), connect
\* being the one of the render that made the socket) and its handle stored in
\* reconnectTimer.current.
onclose(s, code) ==
    /\ sockets[s].state \in {"open", "closing"}
    /\ code \in IF sockets[s].state = "closing"
                THEN CleanupCloseCodes ELSE ServerCloseCodes
    /\ Reconnects(code) => PendingTimers # 1..MaxTimers
    /\ sockets' = [sockets EXCEPT ![s] = FreeSocket]
    /\ wsRef' = IF wsRef = s THEN 0 ELSE wsRef
    /\ timers' =
         IF Reconnects(code)
         THEN [timers EXCEPT ![Lowest({t \in 1..MaxTimers : timers[t].state = "free"})] =
                  [room |-> sockets[s].room, state |-> "pending",
                   delay |-> ReconnectDelayMs]]
         ELSE timers
    /\ reconnectTimer' =
         IF Reconnects(code)
         THEN Lowest({t \in 1..MaxTimers : timers[t].state = "free"})
         ELSE reconnectTimer
    /\ UNCHANGED <<chatVars, mounted>>

\* A reconnect timer fires: connect() of the render the timer was set in.
TimerFired(t) ==
    /\ timers[t].state = "pending"
    /\ \E k \in 1..MaxSockets : sockets[k].state = "free"
    /\ sockets' = Connect(sockets, timers[t].room)
    /\ wsRef' = ConnectSlot(sockets)
    /\ timers' = [timers EXCEPT ![t] = FreeTimer]
    /\ reconnectTimer' = IF reconnectTimer = t THEN 0 ELSE reconnectTimer
    /\ UNCHANGED <<chatVars, mounted>>

\* The Chat page is unmounted (logout, navigation to another route, or a render
\* error with no error boundary): the hook's cleanup runs.
Unmount ==
    /\ mounted
    /\ mounted' = FALSE
    /\ timers' = CleanupTimers
    /\ reconnectTimer' = 0
    /\ sockets' = CleanupSockets
    /\ UNCHANGED <<chatVars, wsRef>>

\* ws.onmessage of socket s: try { onMessage(JSON.parse(event.data)) } catch
\* { console.error }.  An unparseable payload throws inside the try.  A
\* transcription_update without a message makes the setMessages updater throw
\* on the first Store entry while React renders, which unmounts the page; with
\* an empty Store the updater's map calls nothing.  After the unmount the
\* handlers set the state of a component that is gone.
onmessage(s, p) ==
    /\ sockets[s].state = "open"
    /\ IF p \in MalformedPayloads
       THEN IF p.type = "no_record" /\ mounted /\ messages # <<>>
            THEN Unmount
            ELSE UNCHANGED <<chatVars, wsVars>>
       ELSE /\ RoomOf(p.message_id) = sockets[s].room
            /\ UNCHANGED wsVars
            /\ IF mounted THEN handleWsMessage(p) ELSE UNCHANGED chatVars

\* ------------------------------------------------------------ the server
\* The server creates the messages 1, 2, ... one after the other.
ServerCreate ==
    /\ created < MaxId
    /\ created' = created + 1
    /\ UNCHANGED <<chatVars, wsVars, sent>>

\* The record the server holds for message i: deleted for everyone it is
\* flagged and has no content; deleted_for lists who deleted it for themselves.
ServerRow(i) ==
    Message(i, IF i \in serverDeleted THEN Null ELSE Fresh(i).content, Null, FALSE,
            i \in serverDeleted, IF i \in serverHidden THEN <<Me>> ELSE <<>>)

\* What GET /api/rooms/r/messages answers now: the messages of conversation r
\* created so far, in creation order.
RECURSIVE CreatedUpTo(_, _)
CreatedUpTo(r, n) ==
    IF n = 0 THEN <<>>
    ELSE IF RoomOf(n) = r THEN Append(CreatedUpTo(r, n - 1), ServerRow(n))
    ELSE CreatedUpTo(r, n - 1)
ServerSnapshot(r) == CreatedUpTo(r, created)

\* The server sends on a connection the new-message events of its conversation
\* for the messages created after the connection was made, each once and in
\* creation order: what socket s may receive next, and the cursor's step.
\* A connection made in the step starts behind the newest message.
Cursors(s, i) ==
    [k \in 1..MaxSockets |->
        IF sockets'[k].state = "free" THEN 0
        ELSE IF sockets[k].state = "free" THEN created
        ELSE IF k = s THEN i
        ELSE sent[k]]
InOrder(s, p) ==
    /\ p.type = "new_message" =>
         /\ p.message_id > sent[s]
         /\ p.message_id <= created
         /\ \A i \in (sent[s] + 1)..(p.message_id - 1) : RoomOf(i) # sockets[s].room
    /\ sent' = Cursors(IF p.type = "new_message" THEN s ELSE 0, p.message_id)
    /\ UNCHANGED created

\* The server handles DELETE /api/rooms/r/messages/i?scope=...
\* Scope "everyone": the message is flagged and a message_deleted event is
\* sent on every connection of the conversation.  Scope "me": the message is
\* recorded as deleted for the caller, and nothing is sent.
Connected(u, r) ==
    IF u = Me THEN \E k \in OpenSockets : sockets[k].room = r
    ELSE peerOpen /\ r = "r1"
CanBroadcast == \A u \in {Me, Other} : Len(inbox[u]) < MaxInbox
Broadcast(i) ==
    [u \in {Me, Other} |->
        IF Connected(u, RoomOf(i)) THEN Append(inbox[u], [type |-> "message_deleted", message_id |-> i,
                                    message |-> NoMessage]) ELSE inbox[u]]

ServerDelete(req) ==
    /\ req \in pendingDeletes \ served
    /\ req.scope = "everyone" => CanBroadcast
    /\ served' = served \cup {req}
    /\ serverDeleted' = IF req.scope = "everyone" THEN serverDeleted \cup {req.id} ELSE serverDeleted
    /\ serverHidden' = IF req.scope = "me" THEN serverHidden \cup {req.id} ELSE serverHidden
    /\ inbox' = IF req.scope = "everyone" THEN Broadcast(req.id) ELSE inbox
    /\ UNCHANGED <<chatVars, wsVars, serverVars, peerOpen, peerMessages>>

\* --------------------------------------------------- the other user's client
\* The same page, run by the other user on conversation r1.
PeerRows == MessageList(visibleMessages(peerMessages, Other))
PeerRowOf(i) == {PeerRows[k] : k \in {j \in 1..Len(PeerRows) : PeerRows[j].id = i}}

\* handleSelectRoom, the socket and the snapshot's answer, in one step.
PeerOpen ==
    /\ ~peerOpen
    /\ peerOpen' = TRUE
    /\ peerMessages' = ServerSnapshot("r1")
    /\ UNCHANGED <<chatVars, wsVars, serverVars, serverDeleted, serverHidden, served, inbox>>

\* handleDeleteMessage(msg, 'everyone') on a row with a menu, msg sent by that
\* user, together with the server's handling of the request; the handler does
\* nothing to the Store for this scope.
PeerDeleteEveryone(i) ==
    /\ peerOpen
    /\ \E row \in PeerRowOf(i) : row.menu
    /\ SenderOf(i) = Other
    /\ CanBroadcast
    /\ serverDeleted' = serverDeleted \cup {i}
    /\ inbox' = Broadcast(i)
    /\ UNCHANGED <<chatVars, wsVars, serverVars, serverHidden, served, peerOpen, peerMessages>>

\* The other client's onmessage for the oldest event sent to it.
PeerReceive ==
    /\ inbox[Other] # <<>>
    /\ peerMessages' = OnMessageDeleted(peerMessages, Head(inbox[Other]).message_id)
    /\ inbox' = [inbox EXCEPT ![Other] = Tail(@)]
    /\ UNCHANGED <<chatVars, wsVars, serverVars, serverDeleted, serverHidden, served, peerOpen>>

\* A step that raises no alert.
Quiet == alert' = NoAlert

\* The history of a step: which handler ran, and for which message id.
Did(name, i) == lastOp' = Op(name, i)

Next ==
    \/ \E data \in RoomLists : LoadRooms(data) /\ Did("rooms", 0) /\ UNCHANGED <<wsVars, serverVars, peerVars, restVars>> /\ Quiet
    \/ \E r \in RoomIds : handleSelectRoom(r) /\ Did("select", 0) /\ UNCHANGED <<wsVars, serverVars, peerVars, restVars>> /\ Quiet
    \/ \E r \in RoomIds : \E data \in Snapshots(r) :
            LoadMessagesOk(r, data) /\ Did("snapshot", 0) /\ UNCHANGED <<wsVars, serverVars, peerVars, restVars>> /\ Quiet
    \/ \E r \in RoomIds : LoadMessagesFail(r) /\ Did("snapshot_failed", 0) /\ UNCHANGED <<wsVars, serverVars, peerVars, restVars>> /\ Quiet
    \/ \E data \in WsEvents : handleWsMessage(data) /\ Did(data.type, data.message_id) /\ UNCHANGED <<wsVars, serverVars, peerVars, restVars>> /\ Quiet
    \/ \E k \in 1..MaxId : handleContextMenu(k) /\ Did("menu", contextMenu') /\ UNCHANGED <<wsVars, serverVars, peerVars, restVars>> /\ Quiet
    \/ CloseContextMenu /\ Did("menu_closed", 0) /\ UNCHANGED <<wsVars, serverVars, peerVars, restVars>> /\ Quiet
    \/ \E scope \in {"me", "everyone"} : ClickDelete(scope) /\ Did("delete_requested", contextMenu) /\ UNCHANGED <<wsVars, serverVars, peerVars, restVars>> /\ Quiet
    \/ \E req \in pendingDeletes : DeleteOk(req) /\ Did("delete_ok", req.id) /\ UNCHANGED <<wsVars, serverVars, peerVars, restVars>> /\ Quiet
    \/ \E req \in pendingDeletes : DeleteFail(req) /\ Did("delete_failed", req.id) /\ UNCHANGED <<wsVars, serverVars, peerVars, restVars>>

\* The chat page: conversation list, conversation switches, snapshot loads,
\* push events, context menu and scoped deletes.  The push connection, the
\* server and the other client are left out: an event of any message may
\* arrive whenever a conversation is active, and a snapshot may hold any rows.
Spec == Init /\ [][Next]_vars

\* The Store under its two remote sources alone, snapshot loads and push
\* events, with no local delete and no step history; the push connection, the
\* server and the other client are left out as in Spec.
NextStore ==
    \/ \E data \in RoomLists : LoadRooms(data) /\ UNCHANGED <<lastOp, wsVars, serverVars, peerVars, restVars>> /\ Quiet
    \/ \E r \in RoomIds : handleSelectRoom(r) /\ UNCHANGED <<lastOp, wsVars, serverVars, peerVars, restVars>> /\ Quiet
    \/ \E r \in RoomIds : \E data \in Snapshots(r) :
            LoadMessagesOk(r, data) /\ UNCHANGED <<lastOp, wsVars, serverVars, peerVars, restVars>> /\ Quiet
    \/ \E r \in RoomIds : LoadMessagesFail(r) /\ UNCHANGED <<lastOp, wsVars, serverVars, peerVars, restVars>> /\ Quiet
    \/ \E data \in WsEvents : handleWsMessage(data) /\ UNCHANGED <<lastOp, wsVars, serverVars, peerVars, restVars>> /\ Quiet

SpecStore == Init /\ [][NextStore]_vars

\* The inputs of the connection model: conversations without a cached last
\* message (on the sockets: the new-message events and the payloads that are
\* no events).
WsRoomLists == {rl \in RoomLists : \A k \in 1..Len(rl) : rl[k].last_message = NoMessage}

\* The push connection's life: conversation switches run the hook's effect,
\* sockets close (by the cleanup or unexpectedly), reconnect timers fire, the
\* page is unmounted.  The Store plays no part: snapshots are empty and no
\* event arrives.  The history says whether the step was a retry (a timer
\* made a connection) or the unexpected closure of the socket a retry made.
NextConn ==
    \/ \E data \in WsRoomLists :
            mounted /\ LoadRooms(data) /\ Did("init", 0) /\ UNCHANGED <<wsVars, serverVars, peerVars, restVars>> /\ Quiet
    \/ \E r \in RoomIds :
            /\ mounted /\ handleSelectRoom(r) /\ useWebSocketEffect(r)
            /\ reservedClosed' = NoRoom
            /\ Did("init", 0) /\ UNCHANGED <<serverVars, peerVars, pageVars>> /\ Quiet
    \/ \E r \in RoomIds :
            mounted /\ LoadMessagesOk(r, <<>>) /\ Did("init", 0) /\ UNCHANGED <<wsVars, serverVars, peerVars, restVars>> /\ Quiet
    \/ \E r \in RoomIds :
            mounted /\ LoadMessagesFail(r) /\ Did("init", 0) /\ UNCHANGED <<wsVars, serverVars, peerVars, restVars>> /\ Quiet
    \/ \E s \in 1..MaxSockets : \E code \in ServerCloseCodes \cup CleanupCloseCodes :
            /\ onclose(s, code)
            /\ IF lastOp = Op("retry", 0) /\ s = wsRef /\ sockets[s].state = "open"
                  /\ Reconnects(code)
               THEN Did("retry_closed", 0)
               ELSE Did("init", 0)
            /\ reservedClosed' =
                 IF code = ReservedCloseCode /\ s = wsRef /\ mounted
                    /\ sockets[s].room = activeRoom
                 THEN activeRoom
                 ELSE reservedClosed
            /\ UNCHANGED <<serverVars, peerVars, pageVars>> /\ Quiet
    \/ \E t \in 1..MaxTimers : TimerFired(t) /\ Did("retry", 0) /\ UNCHANGED <<serverVars, peerVars, restVars>> /\ Quiet
    \/ /\ Unmount /\ Did("init", 0) /\ reservedClosed' = NoRoom
       /\ UNCHANGED <<serverVars, peerVars, pageVars>> /\ Quiet

SpecConn == Init /\ [][NextConn]_vars

\* The hook's effect when roomId became null: the cleanup of the previous
\* effect runs, then connect() returns at once (if (!roomId || !token) return),
\* so wsRef.current keeps the socket being closed.
useWebSocketEffectNone ==
    /\ timers' = CleanupTimers
    /\ reconnectTimer' = 0
    /\ sockets' = CleanupSockets
    /\ UNCHANGED <<wsRef, mounted>>

\* The connections of the page when conversations are deleted, too: deleting
\* the active conversation leaves no conversation active and runs the hook's
\* effect with roomId null.
NextDeleteConn ==
    \/ NextConn
    \/ \E r \in RoomIds :
            /\ mounted /\ handleRoomDeleted(r)
            /\ IF activeRoom = r THEN useWebSocketEffectNone ELSE UNCHANGED wsVars
            /\ reservedClosed' = IF activeRoom = r THEN NoRoom ELSE reservedClosed
            /\ Did("init", 0) /\ UNCHANGED <<serverVars, peerVars, pageVars>> /\ Quiet

SpecDeleteConn == Init /\ [][NextDeleteConn]_vars

\* The chat page with its push connection and the server behind it:
\* conversation switches run the hook's effect, messages are created,
\* snapshots answer with the messages created so far, events arrive on open
\* sockets only and in creation order, sockets close and reconnect timers
\* fire; no local delete and no history.
NextWs ==
    \/ \E data \in WsRoomLists :
            mounted /\ LoadRooms(data) /\ UNCHANGED <<lastOp, wsVars, serverVars, peerVars, restVars>> /\ Quiet
    \/ \E r \in RoomIds :
            /\ mounted /\ handleSelectRoom(r) /\ useWebSocketEffect(r)
            /\ sent' = Cursors(0, 0) /\ UNCHANGED <<lastOp, created, peerVars, restVars>> /\ Quiet
    \/ \E r \in RoomIds :
            /\ mounted /\ LoadMessagesOk(r, ServerSnapshot(r))
            /\ UNCHANGED <<lastOp, wsVars, serverVars, peerVars, restVars>> /\ Quiet
    \/ \E r \in RoomIds :
            mounted /\ LoadMessagesFail(r) /\ UNCHANGED <<lastOp, wsVars, serverVars, peerVars, restVars>> /\ Quiet
    \/ ServerCreate /\ UNCHANGED <<lastOp, peerVars, restVars>> /\ Quiet
    \/ \E s \in 1..MaxSockets : \E p \in NewMessageEvents \cup MalformedPayloads :
            onmessage(s, p) /\ InOrder(s, p) /\ UNCHANGED <<lastOp, peerVars, restVars>> /\ Quiet
    \/ \E s \in 1..MaxSockets : \E code \in ServerCloseCodes \cup CleanupCloseCodes :
            onclose(s, code) /\ sent' = Cursors(0, 0) /\ UNCHANGED <<lastOp, created, peerVars, restVars>> /\ Quiet
    \/ \E t \in 1..MaxTimers :
            TimerFired(t) /\ sent' = Cursors(0, 0) /\ UNCHANGED <<lastOp, created, peerVars, restVars>> /\ Quiet
    \/ Unmount /\ UNCHANGED <<lastOp, serverVars, peerVars, restVars>> /\ Quiet

SpecWs == Init /\ [][NextWs]_vars

\* Two clients on conversation r1 and the server between them, on a network
\* that loses nothing: the messages exist before either client opens the
\* conversation, the page opens it once, deletes with either scope, and
\* receives the server's events in the order sent; the other user's client
\* opens the conversation, deletes its own messages for everyone and receives
\* its events.
NextPeers ==
    \/ /\ activeRoom = NoRoom /\ ~peerOpen
       /\ ServerCreate /\ UNCHANGED <<lastOp, peerVars, restVars>> /\ Quiet
    \/ \E data \in WsRoomLists :
            LoadRooms(data) /\ UNCHANGED <<lastOp, wsVars, serverVars, peerVars, restVars>> /\ Quiet
    \/ /\ handleSelectRoom("r1") /\ useWebSocketEffect("r1")
       /\ UNCHANGED <<lastOp, serverVars, peerVars, restVars>> /\ Quiet
    \/ /\ LoadMessagesOk("r1", ServerSnapshot("r1"))
       /\ UNCHANGED <<lastOp, wsVars, serverVars, peerVars, restVars>> /\ Quiet
    \/ \E k \in 1..MaxId :
            handleContextMenu(k) /\ UNCHANGED <<lastOp, wsVars, serverVars, peerVars, restVars>> /\ Quiet
    \/ \E scope \in {"me", "everyone"} :
            ClickDelete(scope) /\ UNCHANGED <<lastOp, wsVars, serverVars, peerVars, restVars>> /\ Quiet
    \/ \E req \in pendingDeletes : ServerDelete(req) /\ UNCHANGED <<lastOp, restVars>> /\ Quiet
    \/ \E req \in served :
            /\ DeleteOk(req) /\ served' = served \ {req}
            /\ UNCHANGED <<lastOp, wsVars, serverVars, serverDeleted, serverHidden,
                           inbox, peerOpen, peerMessages, restVars>> /\ Quiet
    \/ \E s \in OpenSockets :
            /\ inbox[Me] # <<>>
            /\ onmessage(s, Head(inbox[Me]))
            /\ inbox' = [inbox EXCEPT ![Me] = Tail(@)]
            /\ UNCHANGED <<lastOp, serverVars, serverDeleted, serverHidden, served,
                           peerOpen, peerMessages, restVars>> /\ Quiet
    \/ PeerOpen /\ UNCHANGED <<lastOp, restVars>> /\ Quiet
    \/ \E i \in MsgIds : PeerDeleteEveryone(i) /\ UNCHANGED <<lastOp, restVars>> /\ Quiet
    \/ PeerReceive /\ UNCHANGED <<lastOp, restVars>> /\ Quiet

SpecPeers == Init /\ [][NextPeers]_vars

\* The network delivers what was sent and the server answers what it was
\* asked: snapshot answers, the handling of a DELETE and its answer, and the
\* events on both clients' connections happen if they stay possible.  What the
\* users do (open, right-click, delete) carries no fairness.
FairSpecPeers ==
    /\ SpecPeers
    /\ WF_vars(/\ NextPeers
               /\ \/ LoadMessagesOk("r1", ServerSnapshot("r1"))
                  \/ \E req \in pendingDeletes : ServerDelete(req)
                  \/ \E req \in served : DeleteOk(req)
                  \/ \E s \in OpenSockets :
                        inbox[Me] # <<>> /\ onmessage(s, Head(inbox[Me]))
                  \/ PeerReceive)

\* The page's send handlers next to the Store's two sources: messages are
\* created at the server (by this user's requests or by others), snapshots
\* answer with the messages created so far, new-message events arrive for
\* created messages; the user types, sends text, voice and files with and
\* without an active conversation, and the requests succeed or fail.
NextSend ==
    \/ \E data \in WsRoomLists :
            /\ LoadRooms(data) /\ Did("init", 0) /\ Quiet
            /\ UNCHANGED <<wsVars, serverVars, peerVars, restVars>>
    \/ \E r \in RoomIds :
            /\ handleSelectRoom(r) /\ Did("init", 0) /\ Quiet
            /\ UNCHANGED <<wsVars, serverVars, peerVars, restVars>>
    \/ \E r \in RoomIds :
            /\ handleRoomDeleted(r) /\ Did("init", 0) /\ Quiet
            /\ UNCHANGED <<wsVars, serverVars, peerVars, restVars>>
    \/ \E r \in RoomIds :
            /\ LoadMessagesOk(r, ServerSnapshot(r)) /\ Did("snapshot", 0) /\ Quiet
            /\ UNCHANGED <<wsVars, serverVars, peerVars, restVars>>
    \/ /\ ServerCreate /\ Did("init", 0) /\ Quiet
       /\ UNCHANGED <<peerVars, restVars>>
    \/ \E ev \in NewMessageEvents :
            /\ ev.message_id <= created
            /\ handleWsMessage(ev) /\ Did("new_message", ev.message_id) /\ Quiet
            /\ UNCHANGED <<wsVars, serverVars, peerVars, restVars>>
    \/ \E t \in TextsUpTo(MaxText) :
            /\ setText(t) /\ Did("init", 0) /\ Quiet
            /\ UNCHANGED <<wsVars, serverVars, peerVars, notSendVars>>
    \/ /\ handleSendText /\ Quiet
       /\ Did(IF pendingSends' = pendingSends THEN "send_refused" ELSE "send_text", 0)
       /\ UNCHANGED <<wsVars, serverVars, peerVars, notSendVars>>
    \/ /\ handleVoiceSend /\ Quiet
       /\ Did(IF pendingSends' = pendingSends THEN "send_refused" ELSE "send_voice", 0)
       /\ UNCHANGED <<wsVars, serverVars, peerVars, notSendVars>>
    \/ \E type \in {"image", "video", "document"} :
            /\ handleAttachmentClick(type) /\ Did("init", 0) /\ Quiet
            /\ UNCHANGED <<wsVars, serverVars, peerVars, notSendVars>>
    \/ \E file \in Files :
            /\ handleFileSelect(file) /\ Quiet
            /\ Did(IF pendingSends' = pendingSends THEN "send_refused" ELSE "send_file", 0)
            /\ UNCHANGED <<wsVars, serverVars, peerVars, notSendVars>>
    \/ \E req \in pendingSends :
            /\ SendOk(req) /\ Did("send_ok", 0) /\ Quiet
            /\ UNCHANGED <<wsVars, serverVars, peerVars, notSendVars>>
    \/ \E req \in pendingSends :
            /\ SendFail(req) /\ Did("send_failed", 0)
            /\ UNCHANGED <<wsVars, serverVars, peerVars, notSendVars>>

SpecSend == Init /\ [][NextSend]_vars

\* The history of the query over a step of dt ms: how long the query has been
\* unchanged (up to the debounce delay), the queries requested since it
\* changed last, whether it ever changed, whether the active conversation
\* changed since it changed last, and whether its last change came while the
\* dispatch of the previous query was pending.
Burst(dt) ==
    burst' =
        IF searchQuery' # searchQuery
        THEN [stable |-> 0, issued |-> <<>>, changed |-> TRUE, moved |-> FALSE,
              superseded |-> PendingTimeouts # {}]
        ELSE [stable |-> IF burst.stable + dt > SearchDelayMs THEN SearchDelayMs
                         ELSE burst.stable + dt,
              issued |-> IF Len(pendingSearches') <= Len(pendingSearches) THEN burst.issued
                         ELSE Append(burst.issued, pendingSearches'[Len(pendingSearches')].q),
              changed |-> burst.changed,
              moved |-> burst.moved \/ activeRoom' # activeRoom,
              superseded |-> burst.superseded]

\* The sidebar's search next to the conversation list: the user types, clears,
\* selects conversations and results, deletes conversations; time passes, the
\* debounce timer runs, search requests are answered or fail, and the page is
\* unmounted.  Snapshots are empty and no push event arrives.
NextSearch ==
    \/ \E data \in WsRoomLists :
            /\ mounted /\ LoadRooms(data) /\ Quiet
            /\ UNCHANGED <<lastOp, wsVars, serverVars, peerVars, notSearchVars,
                           searchQuery, searchResults, searchTimer, timeouts, pendingSearches>>
            /\ Burst(0)
    \/ /\ mounted /\ LoadRoomsFail /\ Quiet
       /\ UNCHANGED <<lastOp, wsVars, serverVars, peerVars, notSearchVars,
                      searchQuery, searchResults, searchTimer, timeouts, pendingSearches>>
       /\ Burst(0)
    \/ \E r \in RoomIds :
            /\ mounted /\ handleSelectRoom(r) /\ SearchRender(<<>>, r, <<>>) /\ Quiet
            /\ Did("init", 0)
            /\ UNCHANGED <<wsVars, serverVars, peerVars, notSearchVars>>
            /\ Burst(0)
    \/ \E r \in RoomIds :
            /\ mounted /\ LoadMessagesOk(r, <<>>) /\ Quiet
            /\ UNCHANGED <<lastOp, wsVars, serverVars, peerVars, notSearchVars,
                           searchQuery, searchResults, searchTimer, timeouts, pendingSearches>>
            /\ Burst(0)
    \/ \E r \in RoomIds :
            /\ mounted /\ handleRoomDeleted(r) /\ SearchRender(searchQuery, activeRoom', searchResults)
            /\ Quiet
            /\ Did("init", 0)
            /\ UNCHANGED <<wsVars, serverVars, peerVars, notSearchVars>>
            /\ Burst(0)
    \/ \E q \in TextsUpTo(MaxQuery) :
            /\ mounted /\ setSearchQuery(q) /\ Quiet
            /\ Did("init", 0)
            /\ UNCHANGED <<wsVars, serverVars, peerVars, notSearchVars>>
            /\ Burst(0)
    \/ /\ mounted /\ onClearSearch /\ Quiet
       /\ Did("init", 0)
       /\ UNCHANGED <<wsVars, serverVars, peerVars, notSearchVars>>
       /\ Burst(0)
    \/ \E k \in 1..MaxId :
            /\ mounted /\ handleSearchResult(k) /\ Quiet
            /\ Did("result_selected", searchResults[k].message.id)
            /\ UNCHANGED <<wsVars, serverVars, peerVars, notSearchVars>>
            /\ Burst(0)
    \/ /\ Tick /\ Quiet
       /\ Did("init", 0)
       /\ UNCHANGED <<wsVars, serverVars, peerVars, notSearchVars>>
       /\ Burst(TickMs)
    \/ \E t \in 1..MaxTimeouts :
            /\ SearchTimerFired(t) /\ Quiet
            /\ Did("search_requested", 0)
            /\ UNCHANGED <<wsVars, serverVars, peerVars, notSearchVars>>
            /\ Burst(0)
    \/ \E k \in 1..Len(pendingSearches) : \E data \in ResultsFor(pendingSearches[k]) :
            /\ mounted /\ SearchOk(k, data) /\ Quiet
            /\ Did("search_ok", 0)
            /\ UNCHANGED <<wsVars, serverVars, peerVars, notSearchVars>>
            /\ Burst(0)
    \/ \E k \in 1..Len(pendingSearches) :
            /\ mounted /\ SearchFail(k) /\ Quiet
            /\ Did("init", 0)
            /\ UNCHANGED <<wsVars, serverVars, peerVars, notSearchVars>>
            /\ Burst(0)
    \/ /\ Unmount /\ SearchCleanup /\ Quiet
       /\ Did("unmounted", 0)
       /\ UNCHANGED <<serverVars, peerVars, notSearchVars>>
       /\ Burst(0)

SpecSearch == Init /\ [][NextSearch]_vars

\* The mic button: a conversation is opened, the user presses and releases
\* the button, the microphone is granted or denied at any moment after a
\* press, recorders stop and their recordings are posted.
NextRec ==
    \/ \E data \in WsRoomLists :
            /\ LoadRooms(data) /\ Quiet
            /\ UNCHANGED <<lastOp, wsVars, serverVars, peerVars, restVars>>
    \/ \E r \in RoomIds :
            /\ activeRoom = NoRoom
            /\ handleSelectRoom(r) /\ Quiet
            /\ UNCHANGED <<lastOp, wsVars, serverVars, peerVars, restVars>>
    \/ \E r \in RoomIds :
            /\ LoadMessagesOk(r, <<>>) /\ Quiet
            /\ UNCHANGED <<lastOp, wsVars, serverVars, peerVars, restVars>>
    \/ /\ startRecording /\ Did("pressed", presses') /\ Quiet
       /\ UNCHANGED <<chatVars, wsVars, serverVars, peerVars, sendVars, searchVars, connHist, syncVars, authVars>>
    \/ /\ GrantOk /\ Did("granted", 0) /\ Quiet
       /\ UNCHANGED <<chatVars, wsVars, serverVars, peerVars, sendVars, searchVars, connHist, syncVars, authVars>>
    \/ /\ GrantDenied /\ Did("denied", 0)
       /\ UNCHANGED <<chatVars, wsVars, serverVars, peerVars, sendVars, searchVars, connHist, syncVars, authVars>>
    \/ /\ stopRecording /\ Did("released", presses) /\ Quiet
       /\ UNCHANGED <<chatVars, wsVars, serverVars, peerVars, sendVars, searchVars, connHist, syncVars, authVars>>
    \/ /\ onstop /\ Did("send_voice", 0) /\ Quiet
       /\ UNCHANGED <<wsVars, serverVars, peerVars, searchVars, connHist, syncVars, authVars>>
    \/ \E req \in pendingSends :
            /\ SendOk(req) /\ Did("send_ok", 0) /\ Quiet
            /\ UNCHANGED <<wsVars, serverVars, peerVars, notSendVars>>
    \/ \E req \in pendingSends :
            /\ SendFail(req) /\ Did("send_failed", 0)
            /\ UNCHANGED <<wsVars, serverVars, peerVars, notSendVars>>

SpecRec == Init /\ [][NextRec]_vars

\* The conversation r has an open push connection; its connection is down
\* while it has none and the retry loop holds a timer for it.
HasConnection(r) == \E k \in OpenSockets : sockets[k].room = r
Down(r) ==
    /\ r # NoRoom
    /\ ~HasConnection(r)
    /\ \E t \in PendingTimers : timers[t].room = r

\* The server handles GET /api/rooms/r/messages?limit=100: the snapshot is
\* computed now and travels to the page.
SyncAnswer ==
    \E r \in RoomIds :
        /\ pendingLoads[r] > 0
        /\ answers[r] = <<>>
        /\ answers' = [answers EXCEPT ![r] = <<ServerSnapshot(r)>>]
        /\ UNCHANGED <<chatVars, wsVars, serverVars, pushed, missed>>

\* The answer arrives: .then(r => { setMessages(r.data); setMsgsLoading(false); })
SyncArrive ==
    \E r \in RoomIds :
        /\ answers[r] # <<>>
        /\ LoadMessagesOk(r, answers[r][1])
        /\ answers' = [answers EXCEPT ![r] = <<>>]
        /\ UNCHANGED <<wsVars, serverVars, pushed, missed>>

\* A new-message event arrives on a socket; the history takes what it
\* appended for the active conversation.
SyncEvent ==
    \E s \in 1..MaxSockets : \E p \in NewMessageEvents :
        /\ onmessage(s, p) /\ InOrder(s, p)
        /\ pushed' = pushed \cup {i \in MsgIds : /\ RoomOf(i) = activeRoom
                                                /\ Has(messages', i)
                                                /\ ~Has(messages, i)}
        /\ UNCHANGED <<answers, missed>>

\* The close event of a socket the cleanup closed.
SyncClosed ==
    \E s \in 1..MaxSockets : \E code \in CleanupCloseCodes :
        /\ sockets[s].state = "closing"
        /\ onclose(s, code)
        /\ sent' = Cursors(0, 0)
        /\ UNCHANGED <<created, syncVars>>

\* A reconnect timer fires.
SyncTimer ==
    \E t \in 1..MaxTimers :
        /\ TimerFired(t)
        /\ sent' = Cursors(0, 0)
        /\ UNCHANGED <<created, syncVars>>

\* The Store's two sources with the server between them: the server computes
\* the snapshot when it handles the GET and the answer travels to the page,
\* while new-message events travel on the push connection.  The user selects
\* conversations; the server creates messages (the history takes those of the
\* active conversation created while its connection is down) and closes
\* connections.
SyncFrame ==
    /\ UNCHANGED <<lastOp, peerVars, sendVars, searchVars, recVars, connHist, authVars>>
    /\ Quiet
NextSync ==
    \/ \E data \in WsRoomLists :
          LoadRooms(data) /\ UNCHANGED <<wsVars, serverVars, syncVars>> /\ SyncFrame
    \/ \E r \in RoomIds :
          /\ handleSelectRoom(r) /\ useWebSocketEffect(r)
          /\ sent' = Cursors(0, 0)
          /\ pushed' = {} /\ missed' = {}
          /\ UNCHANGED <<created, answers>> /\ SyncFrame
    \/ /\ ServerCreate
       /\ missed' = IF Down(activeRoom) /\ RoomOf(created') = activeRoom
                    THEN missed \cup {created'}
                    ELSE missed
       /\ UNCHANGED <<answers, pushed>> /\ SyncFrame
    \/ \E s \in OpenSockets : \E code \in ServerCloseCodes :
          /\ onclose(s, code)
          /\ sent' = Cursors(0, 0)
          /\ UNCHANGED <<created, syncVars>> /\ SyncFrame
    \/ SyncAnswer /\ SyncFrame
    \/ SyncArrive /\ SyncFrame
    \/ SyncEvent /\ SyncFrame
    \/ SyncClosed /\ SyncFrame
    \/ SyncTimer /\ SyncFrame
SpecSync == Init /\ [][NextSync]_vars

\* Requests are answered, what is on its way is delivered, and timers fire.
FairSpecSync ==
    /\ SpecSync
    /\ WF_vars(SyncAnswer /\ SyncFrame)
    /\ WF_vars(SyncArrive /\ SyncFrame)
    /\ WF_vars(SyncEvent /\ SyncFrame)
    /\ WF_vars(SyncClosed /\ SyncFrame)
    /\ WF_vars(SyncTimer /\ SyncFrame)

\* ---------------------------------------------------- session and routes
\* AuthProvider's callbacks: localStorage.setItem on login, removeItem on
\* logout.
login(userData, accessToken) ==
    /\ user' = <<userData>>
    /\ token' = <<accessToken>>
    /\ storage' = [user |-> <<Stringify(userData)>>, token |-> <<accessToken>>]

\* Mutant of logout: localStorage keeps the token.
logout_KeepsStorage ==
    /\ user' = <<>>
    /\ token' = <<>>
    /\ storage' = [storage EXCEPT !.user = <<>>]

logout ==
    /\ user' = <<>>
    /\ token' = <<>>
    /\ storage' = [user |-> <<>>, token |-> <<>>]

\* App.jsx: a route's element is a page or <Navigate to=... replace />.
Paths == {"/login", "/register", "/chat", "/settings", "/"}
Navigate(to) == [kind |-> "navigate", name |-> to]

\* Mutant of PrivateRoute: the children are rendered in any case.
PrivateRoute_Open(auth, children) == [kind |-> "page", name |-> children]

PrivateRoute(auth, children) ==
    IF auth THEN [kind |-> "page", name |-> children] ELSE Navigate("/login")
PublicRoute(auth, children) ==
    IF auth THEN Navigate("/chat") ELSE [kind |-> "page", name |-> children]
AppRoutes(p, auth) ==
    CASE p = "/login" -> PublicRoute(auth, "Login")
      [] p = "/register" -> PublicRoute(auth, "Register")
      [] p = "/chat" -> PrivateRoute(auth, "Chat")
      [] p = "/settings" -> PrivateRoute(auth, "Settings")
      [] OTHER -> Navigate("/chat")

\* The location after the redirects of the render at location p.
RECURSIVE Location(_, _)
Location(p, auth) ==
    IF AppRoutes(p, auth).kind = "navigate"
    THEN Location(AppRoutes(p, auth).name, auth)
    ELSE p

\* The render after a step that left the location at p: the redirects are
\* followed and the page of the location reached is rendered.
Route(p) ==
    /\ path' = Location(p, Truthy(token'))
    /\ page' = AppRoutes(Location(p, Truthy(token')), Truthy(token')).name

\* Login's state after the step: a Login that stayed mounted takes the values
\* set; a Login unmounted or mounted in the step has its initial state, and the
\* requests in flight are no longer those of a mounted Login.
LoginState(form, err, loading, ls) ==
    IF page = "Login" /\ page' = "Login"
    THEN /\ loginForm' = form /\ loginError' = err
         /\ loginLoading' = loading /\ logins' = ls
    ELSE /\ loginForm' = EmptyForm /\ loginError' = ""
         /\ loginLoading' = FALSE /\ logins' = [k \in 1..Len(ls) |-> FALSE]

\* onChange of the two inputs: setForm(p => ({ ...p, [field]: e.target.value }))
setForm(field, value) ==
    /\ page = "Login"
    /\ UNCHANGED <<user, token, storage, path, page>>
    /\ LoginState([loginForm EXCEPT ![field] = value], loginError, loginLoading, logins)

\* Login.handleSubmit up to its await: both inputs are required, and the
\* button is disabled while loading.
handleSubmit ==
    /\ page = "Login"
    /\ loginForm.email # "" /\ loginForm.password # ""
    /\ ~loginLoading
    /\ Len(logins) < MaxLogins
    /\ UNCHANGED <<user, token, storage, path, page>>
    /\ LoginState(loginForm, "", TRUE, Append(logins, TRUE))

\* The requests in flight without the k-th.
Answered(k, ls) == [j \in 1..(Len(ls) - 1) |-> IF j < k THEN ls[j] ELSE ls[j + 1]]

\* The request k is answered with a session: login(data.user,
\* data.access_token); navigate('/chat'); finally setLoading(false).
LoginOk(k, userData, accessToken) ==
    /\ k \in 1..Len(logins)
    /\ login(userData, accessToken)
    /\ Route("/chat")
    /\ LoginState(loginForm, loginError, FALSE, Answered(k, logins))

\* The request k is refused: setError(err.response?.data?.detail || 'Login
\* failed. Check credentials.'); finally setLoading(false).  The setters of an
\* unmounted Login do nothing.
LoginFail(k, err) ==
    /\ k \in 1..Len(logins)
    /\ UNCHANGED <<user, token, storage, path, page>>
    /\ IF logins[k]
       THEN LoginState(loginForm, err, FALSE, Answered(k, logins))
       ELSE LoginState(loginForm, loginError, loginLoading, Answered(k, logins))

\* Sidebar.handleLogout, confirmed: logout(); navigate('/login').
handleLogout ==
    /\ page = "Chat"
    /\ logout
    /\ Route("/login")
    /\ LoginState(loginForm, loginError, loginLoading, logins)

\* A link or navigate(p) of the page shown: the location changes, the session
\* stays.
GoTo(p) ==
    /\ UNCHANGED <<user, token, storage>>
    /\ Route(p)
    /\ LoginState(loginForm, loginError, loginLoading, logins)

\* The app is loaded at location p: AuthProvider's state starts from
\* localStorage (useState(() => localStorage.getItem('token'))), and what was
\* in flight is gone.
AuthProvider(p) ==
    /\ user' = InitialUser(storage)
    /\ token' = storage.token
    /\ UNCHANGED storage
    /\ Route(p)
    /\ loginForm' = EmptyForm /\ loginError' = ""
    /\ loginLoading' = FALSE /\ logins' = <<>>

\* The session and the router: the user types and signs in, the answers carry
\* a user record and a token or an error text (the server's detail or the
\* default), the user signs out, follows links and loads the app.
AuthFrame ==
    /\ UNCHANGED <<chatVars, wsVars, serverVars, peerVars,
                   sendVars, searchVars, recVars, syncVars, connHist>>
    /\ Quiet
NextAuth ==
    \/ \E field \in {"email", "password"} : \E value \in {"", "x"} :
            setForm(field, value) /\ Did("typed", 0) /\ AuthFrame
    \/ handleSubmit /\ Did("submit", 0) /\ AuthFrame
    \/ \E k \in 1..MaxLogins : \E u \in {Me, Other} : \E accessToken \in {"t1", "t2"} :
            LoginOk(k, UserData(u), accessToken) /\ Did("login", 0) /\ AuthFrame
    \/ \E k \in 1..MaxLogins :
       \E err \in {"Incorrect email or password", "Login failed. Check credentials."} :
            LoginFail(k, err) /\ Did("login_failed", 0) /\ AuthFrame
    \/ handleLogout /\ Did("logout", 0) /\ AuthFrame
    \/ \E p \in Paths :
            /\ GoTo(p)
            /\ Did(IF p \in {"/chat", "/settings"} THEN "navigate_private" ELSE "navigate", 0)
            /\ AuthFrame
    \/ \E p \in Paths : AuthProvider(p) /\ Did("load", 0) /\ AuthFrame

SpecAuth == Init /\ [][NextAuth]_vars

\* ================================================================ claims

\* C1: in every reachable state no two entries of the Store (messages) share
\* an id, whatever snapshots, push events and local deletes were handled.
C1_NoDuplicateIds ==
    \A j, k \in 1..Len(messages) : messages[j].id = messages[k].id => j = k

\* A new-message event for an id the Store already held (as a tombstone) was
\* the last thing handled, and the Store holds two entries.
C1_Witness ==
    \E i \in MsgIds :
        /\ lastOp = Op("new_message", i)
        /\ Len(messages) = 2
        /\ \E k \in 1..Len(messages) : messages[k].id = i /\ messages[k].is_deleted

\* C2: handling a new-message event whose id is not in the Store yields the
\* previous Store with the message appended at the tail; handling one whose
\* id is present leaves the Store unchanged.
C2_NewMessageAppendsOrIgnores ==
    [][\A ev \in NewMessageEvents :
          handleWsMessage(ev) =>
            IF Has(messages, ev.message_id)
            THEN messages' = messages
            ELSE /\ Len(messages') = Len(messages) + 1
                 /\ messages'[Len(messages')] = ev.message
                 /\ \A k \in 1..Len(messages) : messages'[k] = messages[k]]_vars

\* The Store holds message 2 and behind it message 1 as pushed: snapshots come
\* in creation order, so message 1 was appended by its push event.
C2_Witness ==
    /\ Len(messages) = 2
    /\ messages[1].id = 2
    /\ messages[2] = Fresh(1)

C5_AbsentIdIsNoOp ==
    [][\A ev \in TranscriptionEvents \cup DeletedEvents :
          (handleWsMessage(ev) /\ ~Has(messages, ev.message_id)) =>
            /\ messages' = messages
            /\ activeRoom' # NoRoom]_vars

\* An update or a deletion for an id the non-empty Store does not hold was the
\* last thing handled.
C5_Witness ==
    \E i \in MsgIds :
        /\ lastOp \in {Op("transcription_update", i), Op("message_deleted", i)}
        /\ ~Has(messages, i)
        /\ Len(messages) > 0
        /\ ListShown

\* C6: once a message_deleted event has been handled, applying the same event
\* again changes neither the Store nor the rendered rows: the entry stays
\* flagged deleted, with null content, rendered as a tombstone.
C6_TombstoneIdempotent ==
    [][\A ev \in DeletedEvents :
          handleWsMessage(ev) =>
            LET again == OnMessageDeleted(messages', ev.message_id)
            IN  /\ again = messages'
                /\ MessageList(visibleMessages(again, Me)) = RenderedRows'
                /\ \A k \in 1..Len(again) :
                     again[k].id = ev.message_id =>
                        /\ again[k].is_deleted
                        /\ again[k].content = Null
                        /\ MessageRow(again[k]).view = "tombstone"]_vars

\* A message_deleted event for the text message 1 of the Store has been
\* handled: the state in which the second application takes place.
C6_Witness ==
    /\ 1 \in tombstoned
    /\ \E k \in 1..Len(messages) : messages[k].id = 1 /\ messages[k].is_deleted
    /\ \E row \in RowOf(1) : row.view = "tombstone"

\* C7: handling a message_deleted event for an id present in the Store turns
\* that entry into a tombstone (is_deleted set, content null) with the same id
\* at the same position; length, order and all other entries are unchanged.
C7_DeletedBecomesTombstone ==
    [][\A ev \in DeletedEvents :
          (handleWsMessage(ev) /\ Has(messages, ev.message_id)) =>
            /\ Len(messages') = Len(messages)
            /\ \A k \in 1..Len(messages) :
                 /\ messages'[k].id = messages[k].id
                 /\ messages[k].id = ev.message_id =>
                        messages'[k].is_deleted /\ messages'[k].content = Null
                 /\ messages[k].id # ev.message_id => messages'[k] = messages[k]]_vars

\* Message 1 is a tombstone at position 1 after its message_deleted event, and
\* message 2 behind it is not deleted.
C7_Witness ==
    /\ 1 \in tombstoned
    /\ Len(messages) = 2
    /\ messages[1].id = 1 /\ messages[1].is_deleted /\ messages[1].content = Null
    /\ messages[2].id = 2 /\ ~messages[2].is_deleted

\* C8: once a Store entry became a tombstone through a message_deleted event,
\* it stays deleted with null content until the conversation is (re)loaded.
C8_TombstoneIsTerminal ==
    \A i \in tombstoned :
        \A k \in 1..Len(messages) :
            messages[k].id = i => messages[k].is_deleted /\ messages[k].content = Null

\* C9: while the list is shown, every message that is deleted for everyone is
\* rendered as a tombstone whether or not it is hidden for the viewer, and a
\* message that is only hidden for the viewer has no row.
C9_RenderingRule ==
    ListShown =>
        /\ \A k \in 1..Len(messages) :
             messages[k].is_deleted =>
                \E row \in RowOf(messages[k].id) : row.view = "tombstone"
        /\ \A i \in tombstoned \cap hiddenForMe :
             \E row \in RowOf(i) : row.view = "tombstone"
        /\ \A k \in 1..Len(messages) :
             (~messages[k].is_deleted /\ Includes(messages[k].deleted_for, Me)) =>
                RowOf(messages[k].id) = {}

\* C10: while the list is shown, a message whose scope "me" delete succeeded
\* has no normal (non-tombstone) row.
C10_HiddenForMeIsTerminal ==
    ListShown =>
        \A i \in hiddenForMe : \A row \in RowOf(i) : row.view # "message"

\* C12: a scope "me" delete takes effect as soon as the user triggers it: while
\* the list is shown, a message whose scope "me" DELETE request has been issued
\* (settled or not) has no row in the rendered list.
C12_HiddenOnClick ==
    ListShown =>
        \A req \in pendingDeletes : req.scope = "me" => RowOf(req.id) = {}

\* C14: at every instant at most one push connection is open (or connecting),
\* and it is to the conversation that is active in the mounted page.
C14_SingleConnection ==
    /\ Cardinality(OpenSockets) <= 1
    /\ \A k \in OpenSockets : mounted /\ sockets[k].room = activeRoom

\* C15: the close event of a socket that the hook's cleanup closed sets no
\* reconnect timer, so the retry loop opens no connection for it.
C15_CleanupCloseNeverReconnects ==
    [][\A s \in 1..MaxSockets : \A code \in CleanupCloseCodes :
          (onclose(s, code) /\ sockets[s].state = "closing") =>
            /\ timers' = timers
            /\ reconnectTimer' = reconnectTimer]_vars

\* C16: the close event of an open socket with any code but the reserved one
\* sets a timer of the fixed delay for the socket's conversation and stores
\* its handle; a timer for the active conversation of the mounted page goes
\* away only by firing; a timer that fires opens a connection to its
\* conversation; nothing counts the retries.
C16_UnexpectedCloseRetries ==
    [][/\ \A s \in 1..MaxSockets : \A code \in ServerCloseCodes :
            (onclose(s, code) /\ sockets[s].state = "open"
                              /\ code # ReservedCloseCode) =>
              \E t \in 1..MaxTimers :
                /\ timers[t].state = "free"
                /\ timers'[t] = [room |-> sockets[s].room, state |-> "pending",
                                 delay |-> ReconnectDelayMs]
                /\ reconnectTimer' = t
       /\ \A t \in 1..MaxTimers :
            (/\ timers[t].state = "pending" /\ timers'[t].state = "free"
             /\ mounted' /\ timers[t].room = activeRoom /\ activeRoom' = activeRoom) =>
              TimerFired(t)
       /\ \A t \in 1..MaxTimers :
            TimerFired(t) =>
              \E k \in 1..MaxSockets :
                /\ sockets[k].state = "free"
                /\ sockets'[k] = [room |-> timers[t].room, state |-> "open"]
                /\ wsRef' = k]_vars

\* The connection a retry had made to the active conversation was closed
\* unexpectedly in its turn, and the next retry is pending with the same delay.
C16_Witness ==
    /\ lastOp = Op("retry_closed", 0)
    /\ mounted
    /\ OpenSockets = {}
    /\ reconnectTimer # 0
    /\ timers[reconnectTimer] =
         [room |-> activeRoom, state |-> "pending", delay |-> ReconnectDelayMs]

\* C17: a malformed inbound payload is dropped: handling it changes neither
\* the Store nor the conversation list, the socket it came on stays open, and
\* the page stays mounted, so that later events are still applied.
C17_MalformedDropped ==
    [][\A s \in 1..MaxSockets : \A p \in MalformedPayloads :
          onmessage(s, p) =>
            /\ messages' = messages
            /\ rooms' = rooms
            /\ sockets'[s].state = "open"
            /\ mounted' = mounted]_vars

\* C18: when the snapshot response for a conversation is handled, the Store
\* becomes exactly that snapshot, entry by entry in the snapshot's order:
\* nothing of the previous Store content remains.
C18_StoreBecomesSnapshot ==
    [][\A r \in RoomIds : \A data \in Snapshots(r) :
          LoadMessagesOk(r, data) =>
            /\ messages' = data
            /\ \A k \in 1..Len(messages') : messages'[k].room_id = r]_vars

\* The list is shown with a Store of two entries whose first is a text message
\* hidden for two users: no push event makes such an entry, a snapshot did.
C18_Witness ==
    /\ ListShown
    /\ Len(messages) = 2
    /\ messages[1].message_type = "text"
    /\ messages[1].deleted_for = <<Other, Me>>
    /\ messages[2].id = 2

\* C19: whenever the message list is rendered for the active conversation
\* (page mounted, a conversation active, loading flag false), every Store
\* entry belongs to the active conversation.
C19_StoreOfActiveRoom ==
    (mounted /\ ListShown) =>
        \A k \in 1..Len(messages) : messages[k].room_id = activeRoom

\* C20: with snapshots sorted by creation timestamp and every connection
\* delivering the new-message events of its conversation in creation order,
\* the Store is sorted by creation timestamp, ascending, in every state.
C20_StoreSorted ==
    \A j, k \in 1..Len(messages) :
        j < k => messages[j].created_at < messages[k].created_at

\* C11: a scope "me" delete by the page's user reaches the other user's client
\* in no way: clicking it, the server's handling of the request and the
\* handler's continuation leave the events sent to that client, its Store and
\* its rows as they are; and an entry that client holds of a message the
\* page's user deleted for themselves is drawn as the message it is, with its
\* content and its menu.
C11_ScopeIndependence ==
    /\ [](\A k \in 1..Len(peerMessages) :
            (peerMessages[k].id \in serverHidden \ serverDeleted)
                => PeerRowOf(peerMessages[k].id) = {MessageRow(Fresh(peerMessages[k].id))})
    /\ [][\A req \in pendingDeletes' \cup pendingDeletes :
            (req.scope = "me" /\ (ClickDelete("me") \/ ServerDelete(req) \/ DeleteOk(req)))
                => /\ inbox'[Other] = inbox[Other]
                   /\ peerMessages' = peerMessages
                   /\ PeerRows' = PeerRows]_vars

\* The page's user deleted a message for themselves, with success, while the
\* other user's client held it: that client still holds it and has nothing to
\* receive.
C11_Witness ==
    /\ peerOpen
    /\ inbox[Other] = <<>>
    /\ \E k \in 1..Len(peerMessages) :
            /\ peerMessages[k].id \in hiddenForMe \cap serverHidden
            /\ peerMessages[k] = Fresh(peerMessages[k].id)

\* C13: once a message is deleted for everyone, each client that has its
\* conversation open eventually holds the message as a tombstone (flagged,
\* no content) and draws the tombstone row.
TombstoneRow(x) == [id |-> x, view |-> "tombstone", content |-> Null, menu |-> FALSE]
PageTombstone(x) ==
    /\ \E k \in 1..Len(messages) :
            messages[k].id = x /\ messages[k].is_deleted /\ messages[k].content = Null
    /\ RowOf(x) = {TombstoneRow(x)}
PeerTombstone(x) ==
    /\ \E k \in 1..Len(peerMessages) :
            peerMessages[k].id = x /\ peerMessages[k].is_deleted /\ peerMessages[k].content = Null
    /\ PeerRowOf(x) = {TombstoneRow(x)}
C13_EveryoneDeleteReachesAll ==
    \A x \in MsgIds :
        (x \in serverDeleted) ~>
            /\ (mounted /\ activeRoom = RoomOf(x)) => PageTombstone(x)
            /\ peerOpen => PeerTombstone(x)

\* C21: no step of a send handler changes the Store: not issuing the request
\* (text, voice, attachment), not its success and not its failure; and
\* whenever the Store changes, the step is the handling of a snapshot answer
\* or of a new-message event.
C21_SendsLeaveStoreAlone ==
    [][/\ (\/ handleSendText \/ handleVoiceSend
           \/ \E file \in Files : handleFileSelect(file)
           \/ \E req \in pendingSends : SendOk(req) \/ SendFail(req))
          => messages' = messages
       /\ messages' # messages
          => \/ lastOp' = Op("snapshot", 0)
             \/ \E i \in MsgIds : lastOp' = Op("new_message", i)]_vars

\* A text send was issued and has just succeeded while the list is shown, and
\* the message the server created for it (1) is not in the Store yet.
C21_Witness ==
    /\ lastOp = Op("send_ok", 0)
    /\ ListShown
    /\ created >= 1
    /\ ~Has(messages, 1)
    /\ text = <<>>

\* C22: a text send with an empty or blank text, and a text, voice or file
\* send without an active conversation, issues no request and changes nothing
\* on the page.
C22_InvalidSendRefused ==
    [][/\ (handleSendText /\ (Trim(text) = <<>> \/ activeRoom = NoRoom))
          => UNCHANGED <<chatVars, sendVars>>
       /\ (handleVoiceSend /\ activeRoom = NoRoom)
          => UNCHANGED <<chatVars, sendVars>>
       /\ \A file \in Files :
            (handleFileSelect(file) /\ activeRoom = NoRoom)
                => UNCHANGED <<chatVars, sendVars>>]_vars

\* A send was just refused while the input holds blanks only, and no request
\* is in flight.
C22_Witness ==
    /\ lastOp = Op("send_refused", 0)
    /\ text # <<>>
    /\ Trim(text) = <<>>
    /\ pendingSends = {}

\* C23: a DELETE request that fails, whatever its scope, leaves the Store and
\* the rendered rows as they are and raises an alert.
C23_FailedDeleteKeepsStore ==
    [][\A req \in pendingDeletes :
          DeleteFail(req) =>
            /\ messages' = messages
            /\ RenderedRows' = RenderedRows
            /\ alert' # NoAlert]_vars

\* The scope "me" delete of a message has just failed with the backend's
\* detail as alert, and the list still shows the message's row.
C23_Witness ==
    \E i \in MsgIds :
        /\ lastOp = Op("delete_failed", i)
        /\ alert = "Not allowed"
        /\ ListShown
        /\ \E row \in RowOf(i) : row.view = "message"

\* C24: a search request is dispatched only for the query the input holds,
\* once the input has been unchanged for 300 ms, and only if the query has at
\* least 2 characters: no request is sent for a query that was superseded
\* within 300 ms or that is shorter.
C24_SearchDebounced ==
    [][Len(pendingSearches') > Len(pendingSearches) =>
            LET req == pendingSearches'[Len(pendingSearches')]
            IN  /\ req.q = searchQuery
                /\ req.q = searchQuery'
                /\ burst.stable = SearchDelayMs
                /\ Len(req.q) >= MinQueryLen]_vars

\* A query of three characters typed while the dispatch of an earlier query
\* was pending has just been requested.
C24_Witness ==
    /\ lastOp.op = "search_requested"
    /\ burst.superseded
    /\ Len(searchQuery) = MaxQuery
    /\ \E k \in 1..Len(pendingSearches) : pendingSearches[k].q = searchQuery

\* The burst of query changes is over: the page is mounted, a query change
\* happened, the input has been unchanged for 300 ms since and no dispatch is
\* pending.  No request is
\* issued between two changes less than 300 ms apart (C24), so the requests
\* issued since the last change are the requests of the burst.
BurstOver ==
    /\ mounted
    /\ burst.changed
    /\ burst.stable = SearchDelayMs
    /\ PendingTimeouts = {}

\* C25 as stated: after a burst of query changes exactly one search request
\* was issued, carrying the final query.
C25_OneRequestPerBurst == BurstOver => burst.issued = <<searchQuery>>

\* C25, amended: after a burst of query changes during which the active
\* conversation stayed the same, exactly one search request was issued,
\* carrying the final query, if the final query has at least 2 characters
\* once trimmed; otherwise none was issued.
C25_OneRequestPerLongBurst ==
    (BurstOver /\ ~burst.moved) =>
        burst.issued = IF Len(Trim(searchQuery)) >= MinQueryLen
                       THEN <<searchQuery>> ELSE <<>>

\* A burst that superseded a pending dispatch is over and its single request,
\* for the final query, has been issued and answered.
C25_Witness ==
    /\ BurstOver
    /\ ~burst.moved
    /\ burst.superseded
    /\ burst.issued = <<searchQuery>>
    /\ pendingSearches = <<>>
    /\ lastOp.op = "search_ok"

\* C26: once a search result was selected, the conversation of the result's
\* message is the active one and the query and the result list are empty.
C26_ResultSelectionNavigates ==
    lastOp.op = "result_selected" =>
        /\ activeRoom = RoomOf(lastOp.id)
        /\ searchQuery = <<>>
        /\ searchResults = <<>>

\* C27: handling a new-message event for conversation R, active or not, sets
\* the last message of R's entry in the conversation list to the event's
\* message; the list keeps its length and order and every other entry.
C27_LastMessageCached ==
    [][\A ev \in NewMessageEvents :
          handleWsMessage(ev) =>
            /\ Len(rooms') = Len(rooms)
            /\ \A k \in 1..Len(rooms) :
                 /\ rooms'[k].id = rooms[k].id
                 /\ rooms[k].id = ev.message.room_id =>
                        rooms'[k].last_message = ev.message
                 /\ rooms[k].id # ev.message.room_id => rooms'[k] = rooms[k]]_vars

\* The event for message 2 of r1 has just been handled while r2 was the active
\* conversation: r1's entry caches it, r2's entry is as loaded.
C27_Witness ==
    /\ lastOp = Op("new_message", 2)
    /\ activeRoom = "r2"
    /\ Len(rooms) = 2
    /\ rooms[1] = [id |-> "r1", last_message |-> Fresh(2)]
    /\ rooms[2] = [id |-> "r2", last_message |-> NoMessage]

\* C28: in every state each conversation's cached last message is the most
\* recent message of the conversation the client knows that is not deleted for
\* everyone: it is not a message the client has seen deleted for everyone that
\* still carries its content, and it is not older than a message of the
\* conversation in the Store that is not deleted.
C28_LastMessageCurrent ==
    \A k \in 1..Len(rooms) :
        LET lm == rooms[k].last_message
        IN  /\ lm.id \in tombstoned => lm.is_deleted /\ lm.content = Null
            /\ \A j \in 1..Len(messages) :
                    (messages[j].room_id = rooms[k].id /\ ~messages[j].is_deleted)
                        => lm.created_at >= messages[j].created_at

\* The recorder is at rest: the button is up, no microphone request is open
\* and no recorder's stop event waits for its handler.
RecorderIdle == ~pressed /\ grants = 0 /\ stopEvents = 0

\* C29: once the recorder is at rest every press and release of the mic button
\* for which the microphone was granted has produced exactly one voice send,
\* and the recorder is not recording, whenever the grant came.
C29_HoldToRecord == RecorderIdle => (voiceSends = presses - denials /\ ~recording)

\* C30: from the step in which the active conversation's connection is closed
\* with the reserved code, and for as long as the active conversation stays
\* the same, no reconnect timer is set for that conversation and no connection
\* to it is made.
C30_ReservedCloseStopsReconnect ==
    [][reservedClosed' # NoRoom =>
          /\ \A t \in 1..MaxTimers :
                (timers'[t].state = "pending" /\ timers'[t].room = reservedClosed')
                    => timers[t] = timers'[t]
          /\ \A k \in 1..MaxSockets :
                (sockets'[k].state = "open" /\ sockets'[k].room = reservedClosed')
                    => sockets[k] = sockets'[k]]_vars

\* C31: at most one search timeout is pending in every state, and none once
\* the page is unmounted; the pending one is the one searchTimer.current holds,
\* so that the next change of the query or of the active conversation clears
\* it before it sets another.
C31_OneSearchTimer ==
    /\ Cardinality(PendingTimeouts) <= 1
    /\ PendingTimeouts \subseteq {searchTimer}
    /\ ~mounted => PendingTimeouts = {}

\* The page was unmounted while the timeout of a query was pending, after a
\* change of the query had replaced the timeout of an earlier query.
C31_Witness ==
    /\ lastOp.op = "unmounted"
    /\ burst.superseded
    /\ Len(Trim(searchQuery)) >= MinQueryLen
    /\ burst.stable < SearchDelayMs
    /\ burst.issued = <<>>
    /\ searchTimer # 0

\* C32: once the responses to all search requests have arrived, no results
\* are displayed while the query is shorter than 2 characters: a late
\* response does not repopulate the list after the query was cleared or
\* shortened.
C32_NoLateResults ==
    (mounted /\ pendingSearches = <<>> /\ Len(Trim(searchQuery)) < MinQueryLen)
        => DisplayedResults = <<>>

\* C33: a message that a new-message event appended for the active
\* conversation stays in the Store as long as that conversation is active
\* (the model has no delete-for-me step); a snapshot arriving after the event
\* does not remove it.
C33_PushedMessageStays == \A i \in pushed : Has(messages, i)

\* C34: the active conversation's connection closed unexpectedly, messages
\* of the conversation were created while it was down, and the retry loop
\* connected again: eventually the Store holds each of those messages (or the
\* user has switched the conversation).
C34_MissedMessagesArrive ==
    \A i \in MsgIds :
        (i \in missed /\ HasConnection(activeRoom)) ~> (Has(messages, i) \/ i \notin missed)

\* C37: a push connection is opened only while a conversation is active.
C37_ConnectNeedsActiveRoom ==
    [][\A k \in 1..MaxSockets :
          (sockets[k].state = "free" /\ sockets'[k].state = "open")
              => activeRoom' # NoRoom]_vars

\* C38: every delete request with scope "everyone" the page issues is for a
\* message of the current user that is no tombstone in the Store when the menu
\* item is clicked.
TombstoneInStore(i) == \E k \in 1..Len(messages) : messages[k].id = i /\ messages[k].is_deleted
C38_EveryoneDeleteOnOwnLiveMessage ==
    [][\A req \in pendingDeletes' \ pendingDeletes :
          req.scope = "everyone" => (SenderOf(req.id) = Me /\ ~TombstoneInStore(req.id))]_vars

\* C35: the user and the token in memory are the ones in localStorage (the
\* stored user text parsed), isAuthenticated holds exactly when a token is
\* set, and after logout user and token are absent in memory and in storage.
C35_SessionConsistent ==
    /\ token = storage.token
    /\ user = InitialUser(storage)
    /\ isAuthenticated <=> token # <<>>
    /\ lastOp.op = "logout" =>
         /\ user = <<>> /\ token = <<>>
         /\ storage.user = <<>> /\ storage.token = <<>>
\* A login after a logout, with another user and another token than before.
C35_Witness ==
    /\ lastOp.op = "login"
    /\ user = <<UserData(Other)>> /\ token = <<"t2">>

\* C36: the chat and settings pages are rendered only while authenticated and
\* at their locations, the login and register pages only while not
\* authenticated and at theirs: any other location has been redirected.
C36_RoutesGuarded ==
    /\ page \in {"Chat", "Settings"} => (isAuthenticated /\ path \in {"/chat", "/settings"})
    /\ page \in {"Login", "Register"} => (~isAuthenticated /\ path \in {"/login", "/register"})
    /\ page = AppRoutes(path, isAuthenticated).name
    /\ AppRoutes(path, isAuthenticated).kind = "page"
\* A signed-out user went to the chat or settings location and sees Login.
C36_Witness ==
    /\ lastOp.op = "navigate_private"
    /\ ~isAuthenticated
    /\ path = "/login" /\ page = "Login"
====
